---- MODULE Spec2Model ----
(***************************************************************************)
(* Model of the cache store (CacheManager over the cache_entry table) and  *)
(* the session registry (SessionManager over the user_session table) of    *)
(* backend/database/cache_manager.py, with the CacheEntry / UserSession    *)
(* columns of backend/models/fii_models.py.                                *)
(*                                                                         *)
(* Optional[T] values are sequences of length at most one: None is <<>>,   *)
(* a present value x is <<x>>.  Times are whole seconds on one clock, now. *)
(***************************************************************************)
EXTENDS Integers, Sequences, FiniteSets, TLC

VARIABLES now, cache, shadow, call, ret, scen, sessions, sshadow, scall, sret,
          analyses, rankings, rcall, rret, txn, libm

vars == <<now, cache, shadow, call, ret, scen, sessions, sshadow, scall, sret,
          analyses, rankings, rcall, rret, txn, libm>>

sessionVars == <<sessions, sshadow, scall, sret>>

dbVars == <<analyses, rankings, rcall, rret, libm>>

----------------------------------------------------------------------------
(* Bounds of the model *)

MaxParams == 2
MaxTtl == 2
MaxAccess == 2
MaxUnitTicks == 3
MaxJumps == 1
MaxDrift == 1
MaxHalfTtls == 6
MaxAnalyses == 2
MaxIds == 3

(* Program constants *)

default_ttl == 3600
session_ttl == 86400

----------------------------------------------------------------------------
(* Input domains *)

None == <<>>

Some(x) == <<x>>

CacheTypes == {"market_data", "model"}

Payloads == {"v1", "v2"}

\* ttl argument of set: omitted (None) or an integer number of seconds
TtlInputs == {None} \cup {Some(n) : n \in 0..MaxTtl}

\* parameter names are numbered in the lexicographic order of their strings
ParamNames == 1..MaxParams

ParamValues == {1, 2}

ParamPairs == {<<n, v>> : n \in ParamNames, v \in ParamValues}

RECURSIVE SeqsUpTo(_, _)
SeqsUpTo(S, n) ==
    IF n = 0 THEN {<<>>}
    ELSE LET shorter == SeqsUpTo(S, n - 1)
         IN shorter \cup {Append(s, x) : s \in shorter, x \in S}

\* **kwargs as the caller wrote them: an ordered mapping with distinct names
KwInputs ==
    {kw \in SeqsUpTo(ParamPairs, MaxParams) :
        \A i, j \in DOMAIN kw : i # j => kw[i][1] # kw[j][1]}

\* one call signature: a single parameter
KwOne == {<< <<1, 1>> >>}

SameEntries(p, q) ==
    /\ Len(p) = Len(q)
    /\ {p[i] : i \in DOMAIN p} = {q[i] : i \in DOMAIN q}

----------------------------------------------------------------------------
(* CacheManager._generate_cache_key *)

\* Python's tuple comparison on (name, value) items
ItemLess(a, b) == a[1] < b[1] \/ (a[1] = b[1] /\ a[2] < b[2])

RECURSIVE Insert(_, _)
Insert(x, s) ==
    IF s = <<>> THEN <<x>>
    ELSE IF ItemLess(x, Head(s)) THEN <<x>> \o s
    ELSE <<Head(s)>> \o Insert(x, Tail(s))

RECURSIVE sorted(_)
sorted(s) == IF s = <<>> THEN <<>> ELSE Insert(Head(s), sorted(Tail(s)))

\* the key without the canonical ordering of the parameters
unsorted_cache_key(cache_type, kwargs) == <<cache_type, kwargs>>

\* sha256 of "<cache_type>:<json of the sorted items>"; the digest is modelled
\* by the text it is taken of (a collision-free hash)
_generate_cache_key(cache_type, kwargs) == <<cache_type, sorted(kwargs)>>

----------------------------------------------------------------------------
(* The cache_entry table: rows in insertion order.  shadow[i] is the        *)
(* history of row i, which the program does not store: data, ttl and        *)
(* set_at are the arguments and the time of the last set of the key,        *)
(* prev_data the payload that set replaced (None when it created the row),  *)
(* hits_set the hits since that set, hits_new the hits since the row was    *)
(* created.                                                                 *)

\* db.query(CacheEntry).filter(CacheEntry.cache_key == cache_key).first():
\* the position of the first row with that key, 0 when there is none
first(table, cache_key) ==
    IF \E i \in DOMAIN table : table[i].cache_key = cache_key
    THEN CHOOSE i \in DOMAIN table :
            /\ table[i].cache_key = cache_key
            /\ \A j \in DOMAIN table : table[j].cache_key = cache_key => i <= j
    ELSE 0

\* the integer primary key the database gives the next row: with SQLite,
\* the database of DATABASE_URL, one more than the highest id of the table,
\* so that the id of a deleted last row is given again
next_id(table) ==
    IF table = <<>> THEN 1
    ELSE 1 + CHOOSE m \in {table[i].id : i \in DOMAIN table} :
                 \A i \in DOMAIN table : table[i].id <= m

\* db.add(entry) and the INSERT of the commit
inserted(table, entry) == Append(table, [entry EXCEPT !.id = next_id(table)])

\* the position of the row with an id, 0 when no row has it
by_id(table, id) ==
    IF \E i \in DOMAIN table : table[i].id = id
    THEN CHOOSE i \in DOMAIN table : table[i].id = id
    ELSE 0

RECURSIVE WithoutFrom(_, _, _)
WithoutFrom(s, D, i) ==
    IF i > Len(s) THEN <<>>
    ELSE (IF i \in D THEN <<>> ELSE <<s[i]>>) \o WithoutFrom(s, D, i + 1)

\* the rows of s whose positions are not in D, order kept
Without(s, D) == WithoutFrom(s, D, 1)

\* a comparison the wrong way round
is_expired_reversed(entry, t) ==
    IF entry.expires_at = None THEN FALSE ELSE t < entry.expires_at[1]

\* CacheEntry.is_expired, with datetime.utcnow() = t
is_expired(entry, t) ==
    IF entry.expires_at = None THEN FALSE ELSE t > entry.expires_at[1]

\* ttl = ttl or self.default_ttl
or_default(ttl) == IF ttl = None \/ ttl[1] = 0 THEN default_ttl ELSE ttl[1]

\* an expiry that forgets the time of the write
expires_at_no_clock(t, ttl) == ttl

\* expires_at = datetime.utcnow() + timedelta(seconds=ttl)
expires_at_of(t, ttl) == t + ttl

\* a hit that counts twice
hit_entry_twice(entry, t) ==
    [entry EXCEPT !.access_count = @ + 2, !.last_accessed = Some(t)]

\* get, the hit branch: entry.access_count += 1; entry.last_accessed = utcnow()
hit_entry(entry, t) ==
    [entry EXCEPT !.access_count = @ + 1, !.last_accessed = Some(t)]

\* an update that keeps the old payload
update_entry_keeps_data(entry, data, ttl, expires_at, t) ==
    [entry EXCEPT !.ttl_seconds = Some(ttl),
                  !.expires_at = Some(expires_at),
                  !.last_accessed = Some(t)]

\* an update that also counts as an access
update_entry_counts(entry, data, ttl, expires_at, t) ==
    [entry EXCEPT !.data = data,
                  !.ttl_seconds = Some(ttl),
                  !.expires_at = Some(expires_at),
                  !.access_count = @ + 1,
                  !.last_accessed = Some(t)]

\* set, the branch for an existing entry
update_entry(entry, data, ttl, expires_at, t) ==
    [entry EXCEPT !.data = data,
                  !.ttl_seconds = Some(ttl),
                  !.expires_at = Some(expires_at),
                  !.last_accessed = Some(t)]

\* set, the branch for a new entry: CacheEntry(...) with the column defaults;
\* the entry has no id before its INSERT
new_entry(cache_key, cache_type, data, ttl, expires_at) ==
    [id |-> 0,
     cache_key |-> cache_key,
     cache_type |-> cache_type,
     data |-> data,
     ttl_seconds |-> Some(ttl),
     access_count |-> 0,
     last_accessed |-> None,
     expires_at |-> Some(expires_at)]

----------------------------------------------------------------------------
(* CacheManager operations *)

get(cache_type, kwargs) ==
    LET cache_key == _generate_cache_key(cache_type, kwargs)
        i == first(cache, cache_key)
    IN  /\ IF i = 0
           THEN /\ call' = [op |-> "get", key |-> cache_key, branch |-> "absent"]
                /\ ret' = None
                /\ UNCHANGED <<cache, shadow>>
           ELSE IF is_expired(cache[i], now)
           THEN /\ call' = [op |-> "get", key |-> cache_key, branch |-> "expired"]
                /\ cache' = Without(cache, {i})
                /\ shadow' = Without(shadow, {i})
                /\ ret' = None
           ELSE /\ call' = [op |-> "get", key |-> cache_key, branch |-> "hit"]
                /\ cache[i].access_count < MaxAccess
                /\ cache' = [cache EXCEPT ![i] = hit_entry(@, now)]
                /\ shadow' = [shadow EXCEPT ![i].hits_set = @ + 1,
                                            ![i].hits_new = @ + 1]
                /\ ret' = Some(cache[i].data)
        /\ UNCHANGED now

\* a payload the JSON column cannot take: json.dumps raises TypeError
Unserialisable == "object()"

serialisable(data) == data # Unserialisable

\* a failed commit that leaves the pending changes in the table
commit_pending(table, pending) == pending

\* the table after a commit that raised: the with block closes the database
\* session, which rolls the pending changes back
rollback(table, pending) == table

set(cache_type, data, ttl, kwargs) ==
    LET cache_key == _generate_cache_key(cache_type, kwargs)
        eff == or_default(ttl)
        expires_at == expires_at_of(now, eff)
        i == first(cache, cache_key)
        pending == IF i # 0
                   THEN [cache EXCEPT ![i] = update_entry(@, data, eff, expires_at, now)]
                   ELSE inserted(cache, new_entry(cache_key, cache_type, data, eff,
                                                  expires_at))
    IN  /\ IF ~serialisable(data)
           \* db.commit() raises while it flushes the payload; set has no
           \* except clause, the caller gets the exception
           THEN /\ call' = [op |-> "set", key |-> cache_key, branch |-> "raised"]
                /\ cache' = rollback(cache, pending)
                /\ ret' = None
                /\ UNCHANGED shadow
           ELSE IF i # 0
           THEN /\ call' = [op |-> "set", key |-> cache_key, branch |-> "update"]
                /\ cache' = pending
                /\ shadow' = [shadow EXCEPT ![i] =
                                 [data |-> data, prev_data |-> Some(shadow[i].data),
                                  ttl |-> ttl, set_at |-> now,
                                  hits_set |-> 0, hits_new |-> shadow[i].hits_new]]
                /\ ret' = cache_key
           ELSE /\ call' = [op |-> "set", key |-> cache_key, branch |-> "insert"]
                /\ next_id(cache) <= MaxIds
                /\ cache' = pending
                /\ shadow' = Append(shadow,
                                 [data |-> data, prev_data |-> None,
                                  ttl |-> ttl, set_at |-> now,
                                  hits_set |-> 0, hits_new |-> 0])
                /\ ret' = cache_key
        /\ UNCHANGED now

delete(cache_type, kwargs) ==
    LET cache_key == _generate_cache_key(cache_type, kwargs)
        i == first(cache, cache_key)
    IN  /\ IF i # 0
           THEN /\ call' = [op |-> "delete", key |-> cache_key, branch |-> "found"]
                /\ cache' = Without(cache, {i})
                /\ shadow' = Without(shadow, {i})
                /\ ret' = TRUE
           ELSE /\ call' = [op |-> "delete", key |-> cache_key, branch |-> "absent"]
                /\ ret' = FALSE
                /\ UNCHANGED <<cache, shadow>>
        /\ UNCHANGED now

\* the rows the sweep's filter selects: expires_at IS NOT NULL AND expires_at < now
expired_entries(table, t) ==
    {i \in DOMAIN table :
        table[i].expires_at # None /\ table[i].expires_at[1] < t}

cleanup_expired ==
    LET D == expired_entries(cache, now)
    IN  /\ call' = [op |-> "cleanup_expired", key |-> None, branch |-> "none"]
        /\ cache' = Without(cache, D)
        /\ shadow' = Without(shadow, D)
        /\ ret' = Cardinality(D)
        /\ UNCHANGED now

clear_cache_type(cache_type) ==
    LET D == {i \in DOMAIN cache : cache[i].cache_type = cache_type}
    IN  /\ call' = [op |-> "clear_cache_type", key |-> None, branch |-> cache_type]
        /\ cache' = Without(cache, D)
        /\ shadow' = Without(shadow, D)
        /\ ret' = Cardinality(D)
        /\ UNCHANGED now

\* statistics that take every entry for active
cache_stats_all_active(table, t) ==
    LET types == {table[i].cache_type : i \in DOMAIN table}
        total(ct) == Cardinality({i \in DOMAIN table : table[i].cache_type = ct})
    IN  [total_entries |-> Len(table),
         by_type |-> [ct \in types |->
                        [total |-> total(ct), expired |-> 0, active |-> total(ct)]]]

\* the dictionary get_cache_stats returns (without the last_cleanup text)
cache_stats(table, t) ==
    LET types == {table[i].cache_type : i \in DOMAIN table}
        total(ct) == Cardinality({i \in DOMAIN table : table[i].cache_type = ct})
        expired(ct) == Cardinality({i \in DOMAIN table :
                            /\ table[i].cache_type = ct
                            /\ table[i].expires_at # None
                            /\ table[i].expires_at[1] < t})
    IN  [total_entries |-> Len(table),
         by_type |-> [ct \in types |->
                        [total |-> total(ct),
                         expired |-> expired(ct),
                         active |-> total(ct) - expired(ct)]]]

get_cache_stats ==
    /\ call' = [op |-> "get_cache_stats", key |-> None, branch |-> "none"]
    /\ ret' = cache_stats(cache, now)
    /\ UNCHANGED <<now, cache, shadow>>

\* time passes between calls: a second, or a whole default ttl
TickCache(steps) ==
    \E d \in steps :
        /\ IF d = 1 THEN now % default_ttl < MaxUnitTicks
                    ELSE now \div default_ttl < MaxJumps
        /\ now' = now + d
        /\ UNCHANGED <<cache, shadow, call, ret>>

----------------------------------------------------------------------------
Init ==
    /\ now = 0
    /\ cache = <<>>
    /\ shadow = <<>>
    /\ call = [op |-> "init", key |-> None, branch |-> "none"]
    /\ ret = None
    /\ scen = [pc |-> "off", cache_type |-> "market_data", a |-> <<>>, b |-> <<>>]
    /\ sessions = <<>>
    /\ sshadow = <<>>
    /\ scall = [op |-> "init", session_id |-> "", branch |-> "none"]
    /\ sret = None
    /\ analyses = <<>>
    /\ rankings = <<>>
    /\ rcall = [op |-> "init", session_id |-> "", branch |-> "none"]
    /\ rret = None
    /\ txn = <<>>
    /\ libm = <<>>

\* the calls a client can make, with arguments from the given sets
Get(types, kws) ==
    /\ \E t \in types, kw \in kws : get(t, kw)
    /\ UNCHANGED <<scen, sessionVars, dbVars, txn>>

Set(types, kws, payloads, ttls) ==
    /\ \E t \in types, d \in payloads, ttl \in ttls, kw \in kws : set(t, d, ttl, kw)
    /\ UNCHANGED <<scen, sessionVars, dbVars, txn>>

Delete(types, kws) ==
    /\ \E t \in types, kw \in kws : delete(t, kw)
    /\ UNCHANGED <<scen, sessionVars, dbVars, txn>>

CleanupExpired == cleanup_expired /\ UNCHANGED <<scen, sessionVars, dbVars, txn>>

ClearCacheType(types) ==
    /\ \E t \in types : clear_cache_type(t)
    /\ UNCHANGED <<scen, sessionVars, dbVars, txn>>

GetCacheStats == get_cache_stats /\ UNCHANGED <<scen, sessionVars, dbVars, txn>>

Tick(steps) == TickCache(steps) /\ UNCHANGED <<scen, sessionVars, dbVars, txn>>

\* one key, every ttl and payload, a clock that can pass a default ttl
Next ==
    \/ Get({"market_data"}, KwOne)
    \/ Set({"market_data"}, KwOne, Payloads, TtlInputs)
    \/ Delete({"market_data"}, KwOne)
    \/ CleanupExpired
    \/ ClearCacheType({"market_data"})
    \/ GetCacheStats
    \/ Tick({1, default_ttl})

Spec == Init /\ [][Next]_vars

\* two keys (one of each cache type), one payload, short ttls, unit ticks
NextFrame ==
    \/ Get(CacheTypes, KwOne)
    \/ Set(CacheTypes, KwOne, {"v1"}, {Some(1)})
    \/ Delete(CacheTypes, KwOne)
    \/ CleanupExpired
    \/ ClearCacheType(CacheTypes)
    \/ GetCacheStats
    \/ Tick({1})

SpecFrame == Init /\ [][NextFrame]_vars

\* two keys, a payload that can be stored and one that cannot
StorePayloads == {"v1", Unserialisable}

NextStore ==
    \/ Get(CacheTypes, KwOne)
    \/ Set(CacheTypes, KwOne, StorePayloads, {Some(1)})
    \/ Tick({1})

SpecStore == Init /\ [][NextStore]_vars

\* two keys of one cache type and one of the other, unit ticks, with and
\* without sweeps
KwTwo == {<< <<1, 1>> >>, << <<1, 2>> >>}

NextStats ==
    \/ Set({"market_data"}, KwTwo, {"v1"}, {Some(1)})
    \/ Set({"model"}, KwOne, {"v1"}, {Some(1)})
    \/ CleanupExpired
    \/ GetCacheStats
    \/ Tick({1})

SpecStats == Init /\ [][NextStats]_vars

----------------------------------------------------------------------------
(* A caller that stores under one ordering of the parameters and then reads *)
(* or deletes under another: scen holds the cache type, the two orderings   *)
(* a and b, and how far the caller has come.                                *)

InitKey ==
    /\ now = 0
    /\ cache = <<>>
    /\ shadow = <<>>
    /\ call = [op |-> "init", key |-> None, branch |-> "none"]
    /\ ret = None
    /\ scen \in [pc : {"start"}, cache_type : CacheTypes, a : KwInputs, b : KwInputs]
    /\ sessions = <<>>
    /\ sshadow = <<>>
    /\ scall = [op |-> "init", session_id |-> "", branch |-> "none"]
    /\ sret = None
    /\ analyses = <<>>
    /\ rankings = <<>>
    /\ rcall = [op |-> "init", session_id |-> "", branch |-> "none"]
    /\ rret = None
    /\ txn = <<>>
    /\ libm = <<>>

KeySet ==
    /\ scen.pc = "start"
    /\ \E d \in Payloads, ttl \in TtlInputs : set(scen.cache_type, d, ttl, scen.a)
    /\ scen' = [scen EXCEPT !.pc = "stored"]
    /\ UNCHANGED <<sessionVars, dbVars, txn>>

KeyGet ==
    /\ scen.pc = "stored"
    /\ get(scen.cache_type, scen.b)
    /\ scen' = [scen EXCEPT !.pc = "read"]
    /\ UNCHANGED <<sessionVars, dbVars, txn>>

KeyDelete ==
    /\ scen.pc \in {"stored", "read"}
    /\ delete(scen.cache_type, scen.b)
    /\ scen' = [scen EXCEPT !.pc = "deleted"]
    /\ UNCHANGED <<sessionVars, dbVars, txn>>

NextKey == KeySet \/ KeyGet \/ KeyDelete

SpecKey == InitKey /\ [][NextKey]_vars

----------------------------------------------------------------------------
(* SessionManager over the user_session table: rows in insertion order.     *)
(* sshadow[i] is the history of row i, which the program does not store:    *)
(* touched is the time of the last create_session or get_session that found *)
(* the session, regular says that since the session was created no two      *)
(* successive such accesses were more than half a session ttl apart.        *)

SessionIds == {"s1", "s2"}

UserAgents == {None, Some(""), Some("ua")}

\* Python's truth test of an Optional[str]: None and '' are false
truthy_text(text) == text # None /\ text[1] # ""

\* db.query(UserSession).filter(UserSession.session_id == session_id).first()
first_session(table, session_id) ==
    IF \E i \in DOMAIN table : table[i].session_id = session_id
    THEN CHOOSE i \in DOMAIN table :
            /\ table[i].session_id = session_id
            /\ \A j \in DOMAIN table : table[j].session_id = session_id => i <= j
    ELSE 0

\* create_session, the branch for a new session, with the column defaults
new_session(session_id, user_agent, ip_address, expires_at, t) ==
    [session_id |-> session_id,
     user_agent |-> user_agent,
     ip_address |-> ip_address,
     total_analyses |-> 0,
     last_activity |-> None,
     preferences |-> None,
     created_at |-> t,
     expires_at |-> Some(expires_at)]

\* create_session, the branch for an existing session
touch_session(s, user_agent, ip_address, expires_at, t) ==
    [s EXCEPT !.last_activity = Some(t),
              !.expires_at = Some(expires_at),
              !.user_agent = IF truthy_text(user_agent) THEN user_agent ELSE @,
              !.ip_address = IF truthy_text(ip_address) THEN ip_address ELSE @]

\* get_session: session_obj.expires_at and datetime.utcnow() > session_obj.expires_at
session_expired(s, t) == s.expires_at # None /\ t > s.expires_at[1]

\* get_session, the branch for a valid session: session_obj.last_activity = utcnow()
read_session(s, t) == [s EXCEPT !.last_activity = Some(t)]

\* the dictionary get_session returns
session_dict(s) ==
    [session_id |-> s.session_id,
     total_analyses |-> s.total_analyses,
     preferences |-> s.preferences,
     created_at |-> s.created_at,
     last_activity |-> s.last_activity]

\* an update of the statistics that leaves the counter alone
count_session_never(s, increment_analyses, t) == [s EXCEPT !.last_activity = Some(t)]

\* update_session_stats on an existing session
count_session(s, increment_analyses, t) ==
    [s EXCEPT !.last_activity = Some(t),
              !.total_analyses = IF increment_analyses THEN @ + 1 ELSE @]

\* the history of a session after an access at time t
Accessed(h, t) ==
    [touched |-> t, regular |-> h.regular /\ t - h.touched <= session_ttl \div 2]

create_session(session_id, user_agent, ip_address) ==
    LET expires_at == now + session_ttl
        i == first_session(sessions, session_id)
    IN  /\ IF i # 0
           THEN /\ scall' = [op |-> "create_session", session_id |-> session_id,
                             branch |-> "update"]
                /\ sessions' = [sessions EXCEPT ![i] =
                                   touch_session(@, user_agent, ip_address, expires_at, now)]
                /\ sshadow' = [sshadow EXCEPT ![i] = Accessed(@, now)]
           ELSE /\ scall' = [op |-> "create_session", session_id |-> session_id,
                             branch |-> "insert"]
                /\ sessions' = Append(sessions,
                                   new_session(session_id, user_agent, ip_address,
                                               expires_at, now))
                /\ sshadow' = Append(sshadow, [touched |-> now, regular |-> TRUE])
        /\ sret' = Some(session_id)
        /\ UNCHANGED now

get_session(session_id) ==
    LET i == first_session(sessions, session_id)
    IN  /\ IF i = 0
           THEN /\ scall' = [op |-> "get_session", session_id |-> session_id,
                             branch |-> "absent"]
                /\ sret' = None
                /\ UNCHANGED <<sessions, sshadow>>
           ELSE IF session_expired(sessions[i], now)
           THEN /\ scall' = [op |-> "get_session", session_id |-> session_id,
                             branch |-> "expired"]
                /\ sessions' = Without(sessions, {i})
                /\ sshadow' = Without(sshadow, {i})
                /\ sret' = None
           ELSE /\ scall' = [op |-> "get_session", session_id |-> session_id,
                             branch |-> "valid"]
                /\ sessions' = [sessions EXCEPT ![i] = read_session(@, now)]
                /\ sshadow' = [sshadow EXCEPT ![i] = Accessed(@, now)]
                /\ sret' = Some(session_dict(read_session(sessions[i], now)))
        /\ UNCHANGED now

update_session_stats(session_id, increment_analyses) ==
    LET i == first_session(sessions, session_id)
    IN  /\ IF i # 0
           THEN /\ scall' = [op |-> "update_session_stats", session_id |-> session_id,
                             branch |-> "found",
                             increment_analyses |-> increment_analyses]
                /\ increment_analyses => sessions[i].total_analyses < MaxAnalyses
                /\ sessions' = [sessions EXCEPT ![i] =
                                   count_session(@, increment_analyses, now)]
           ELSE /\ scall' = [op |-> "update_session_stats", session_id |-> session_id,
                             branch |-> "absent",
                             increment_analyses |-> increment_analyses]
                /\ UNCHANGED sessions
        /\ sret' = None
        /\ UNCHANGED sshadow
        /\ UNCHANGED now

\* the rows the sweep's filter selects: expires_at IS NOT NULL AND expires_at < now
expired_sessions(table, t) ==
    {i \in DOMAIN table :
        table[i].expires_at # None /\ table[i].expires_at[1] < t}

cleanup_expired_sessions ==
    LET D == expired_sessions(sessions, now)
    IN  /\ scall' = [op |-> "cleanup_expired_sessions", session_id |-> "",
                     branch |-> "none"]
        /\ sessions' = Without(sessions, D)
        /\ sshadow' = Without(sshadow, D)
        /\ sret' = Some(Cardinality(D))
        /\ UNCHANGED now

\* time passes between calls: a second, or half a session ttl
TickSession ==
    \E d \in {1, session_ttl \div 2} :
        /\ IF d = 1 THEN now % (session_ttl \div 2) < MaxDrift
                    ELSE now \div (session_ttl \div 2) < MaxHalfTtls
        /\ now' = now + d
        /\ UNCHANGED sessionVars

cacheVars == <<cache, shadow, call, ret, scen>>

CreateSession(ids) ==
    /\ \E sid \in ids, ua \in UserAgents : create_session(sid, ua, None)
    /\ UNCHANGED <<cacheVars, dbVars, txn>>

GetSession(ids) ==
    /\ \E sid \in ids : get_session(sid)
    /\ UNCHANGED <<cacheVars, dbVars, txn>>

UpdateSessionStats(ids) ==
    /\ \E sid \in ids, inc \in BOOLEAN : update_session_stats(sid, inc)
    /\ UNCHANGED <<cacheVars, dbVars, txn>>

CleanupExpiredSessions == cleanup_expired_sessions /\ UNCHANGED <<cacheVars, dbVars, txn>>

SessionTick == TickSession /\ UNCHANGED <<cacheVars, dbVars, txn>>

NextSession ==
    \/ CreateSession({"s1"})
    \/ GetSession({"s1"})
    \/ UpdateSessionStats({"s1"})
    \/ CleanupExpiredSessions
    \/ SessionTick

SpecSession == Init /\ [][NextSession]_vars

----------------------------------------------------------------------------
(* The fii_analysis table: rows in insertion order, ids from the integer    *)
(* primary key.  A JSON value of the financial_metrics / market_data        *)
(* columns is a record [t, n]: null, a number, a text that reads as a       *)
(* number ("12,00%"), or a text that does not ("N/A").  Numbers are counted *)
(* in hundredths, so 12.0 is 1200 and 0.85 is 85.                           *)

MaxRows == 3

Null == [t |-> "null", n |-> 0]

Num(n) == [t |-> "num", n |-> n]

Str(n) == [t |-> "str", n |-> n]

NA == [t |-> "text", n |-> 0]

\* the keys the ranking reads from the two JSON columns
NoMetrics == [dividend_yield |-> Null, dy |-> Null, pvp_ratio |-> Null, p_vp |-> Null]

NoMarket ==
    [dividend_yield |-> Null, pvp_ratio |-> Null, liquidity_score |-> Null,
     avg_volume |-> Null]

\* an analysis as stored before any embedding is computed
Report(financial_metrics, market_data, risk_rating, investment_recommendation) ==
    [financial_metrics |-> financial_metrics,
     market_data |-> market_data,
     risk_rating |-> risk_rating,
     investment_recommendation |-> investment_recommendation,
     embedding_vector |-> None,
     embedding_model |-> None]

BareReports == {Report(None, None, None, None)}

\* FIIAnalysis(session_id=..., ...) added and committed
add_analysis(session_id, report) ==
    /\ rcall' = [op |-> "add_analysis", session_id |-> session_id, branch |-> "insert"]
    /\ Len(analyses) < MaxRows
    /\ analyses' = Append(analyses,
                      [id |-> next_id(analyses),
                       session_id |-> session_id,
                       financial_metrics |-> report.financial_metrics,
                       market_data |-> report.market_data,
                       risk_rating |-> report.risk_rating,
                       investment_recommendation |-> report.investment_recommendation,
                       embedding_vector |-> report.embedding_vector,
                       embedding_model |-> report.embedding_model])
    /\ rret' = Some(next_id(analyses))
    /\ UNCHANGED <<now, rankings, libm>>

\* db.query(FIIAnalysis).filter(FIIAnalysis.session_id == session_id)
session_rows(table, session_id) ==
    {i \in DOMAIN table : table[i].session_id = session_id}

\* a deletion that goes through: the analyses of the session are removed
delete_session_committed(session_id) ==
    /\ scall' = [op |-> "delete_session", session_id |-> session_id,
                 branch |-> "deleted"]
    /\ sret' = None
    /\ analyses' = SelectSeq(analyses, LAMBDA a : a.session_id # session_id)
    /\ UNCHANGED <<now, sessions, sshadow, rankings, rcall, rret, libm>>

\* DELETE /session/{session_id}: the analyses of the session are deleted in
\* the request's transaction, then session_manager.delete_session is called.
\* SessionManager has no such attribute, so the call raises AttributeError,
\* the handler answers 500 before db.commit(), and get_db closes the database
\* session, which rolls the deletion back.
delete_session(session_id) ==
    /\ scall' = [op |-> "delete_session", session_id |-> session_id,
                 branch |-> "http_500"]
    /\ sret' = None
    /\ UNCHANGED <<now, sessions, sshadow, analyses, rankings, rcall, rret, libm>>

AddAnalysis(ids, reports) ==
    /\ \E sid \in ids, r \in reports : add_analysis(sid, r)
    /\ UNCHANGED <<cacheVars, sessionVars, txn>>

DeleteSession(ids) ==
    /\ \E sid \in ids : delete_session(sid)
    /\ UNCHANGED <<cacheVars, txn>>

\* the three ways a session can go, with analyses stored under the session
NextOwner ==
    \/ CreateSession({"s1"})
    \/ GetSession({"s1"})
    \/ CleanupExpiredSessions
    \/ SessionTick
    \/ AddAnalysis({"s1"}, BareReports)
    \/ DeleteSession({"s1"})

SpecOwner == Init /\ [][NextOwner]_vars

----------------------------------------------------------------------------
(* FIIRankingSystem: the three rankings computed from the stored metrics.   *)
(* A metric is a decimal number counted in hundredths.  The sort keys of    *)
(* the two simple rankings are exact fractions [num, den]; the composite    *)
(* score is a float, computed as Python computes it.                        *)

\* the truth value Python gives a JSON value: None and 0 are false, every
\* non-empty text is true
truthy(v) ==
    CASE v.t = "null" -> FALSE
      [] v.t = "num" -> v.n # 0
      [] OTHER -> TRUE

\* a or b
py_or(a, b) == IF truthy(a) THEN a ELSE b

_extract_numeric_value(value) ==
    IF value.t \in {"num", "str"} THEN Some(value.n) ELSE None

\* the dividend yield the rankings read: the metrics, else the market data.
\* (An empty dict and a dict whose keys are all null give the same result.)
dividend_yield_of(analysis) ==
    LET fm == analysis.financial_metrics
        md == analysis.market_data
        dy == IF fm # None
              THEN _extract_numeric_value(py_or(fm[1].dividend_yield, fm[1].dy))
              ELSE None
    IN  IF dy = None /\ md # None
        THEN _extract_numeric_value(md[1].dividend_yield)
        ELSE dy

pvp_ratio_of(analysis) ==
    LET fm == analysis.financial_metrics
        md == analysis.market_data
        pvp == IF fm # None
               THEN _extract_numeric_value(py_or(fm[1].pvp_ratio, fm[1].p_vp))
               ELSE None
    IN  IF pvp = None /\ md # None
        THEN _extract_numeric_value(md[1].pvp_ratio)
        ELSE pvp

liquidity_of(analysis) ==
    LET md == analysis.market_data
    IN  IF md # None
        THEN _extract_numeric_value(py_or(md[1].liquidity_score, md[1].avg_volume))
        ELSE None

----------------------------------------------------------------------------
(* Python's float: an IEEE 754 double, every operation rounded to the       *)
(* nearest double, ties to even.  A float is [m, e, neg], the number        *)
(* m * 2^e, negative when neg, with a mantissa 2^52 <= m < 2^53, or zero    *)
(* with no mantissa.  A mantissa and the whole numbers of the arithmetic do *)
(* not fit a 32-bit integer: a whole number is the sequence of its digits   *)
(* to the base 2^14, lowest digit first, with no leading zero digit.        *)

Min(a, b) == IF a < b THEN a ELSE b

Max(a, b) == IF a > b THEN a ELSE b

DigitBits == 14

Base == 2^DigitBits

\* the bits of the mantissa of a double
MantissaBits == 53

digit(n, i) == IF i \in DOMAIN n THEN n[i] ELSE 0

\* the digits without the zero digits at the high end
trim(digits) ==
    LET used == {i \in DOMAIN digits : digits[i] # 0}
    IN  SubSeq(digits, 1, IF used = {} THEN 0
                          ELSE CHOOSE i \in used : \A j \in used : j <= i)

\* one pass of carrying over a sequence of columns: every column keeps its
\* digit and takes what the column below carries (or borrows)
carry_pass(columns) ==
    [k \in 1..(Len(columns) + 1) |->
        (digit(columns, k) % Base) + (digit(columns, k - 1) \div Base)]

\* the whole number of a sequence of columns: carrying is repeated until
\* every column is a digit
RECURSIVE carry(_)
carry(columns) ==
    IF \A k \in DOMAIN columns : columns[k] \in 0..(Base - 1)
    THEN trim(columns)
    ELSE carry(trim(carry_pass(columns)))

\* the whole number of an integer k >= 0
nat(k) == carry(<<k>>)

\* the integer of a whole number below 2^31
RECURSIVE int_of(_)
int_of(n) == IF n = <<>> THEN 0 ELSE n[1] + Base * int_of(Tail(n))

nat_add(a, b) ==
    carry([i \in 1..Max(Len(a), Len(b)) |-> digit(a, i) + digit(b, i)])

\* a - b for a >= b
nat_sub(a, b) == carry([i \in 1..Len(a) |-> a[i] - digit(b, i)])

\* column k of the product: the sum of a[i] * b[j] over i + j = k + 1
column(a, b, k) ==
    ((digit(a, 1) * digit(b, k) + digit(a, 2) * digit(b, k - 1))
        + (digit(a, 3) * digit(b, k - 2) + digit(a, 4) * digit(b, k - 3)))
      + ((digit(a, 5) * digit(b, k - 4) + digit(a, 6) * digit(b, k - 5))
        + digit(a, 7) * digit(b, k - 6))

\* a * b for a of at most seven digits, so that a column stays below 2^31
nat_mul(a, b) ==
    IF a = <<>> \/ b = <<>> THEN <<>>
    ELSE carry([k \in 1..(Len(a) + Len(b) - 1) |-> column(a, b, k)])

RECURSIVE less_from(_, _, _)
less_from(a, b, i) ==
    IF i = 0 THEN FALSE
    ELSE IF a[i] # b[i] THEN a[i] < b[i]
    ELSE less_from(a, b, i - 1)

nat_less(a, b) ==
    IF Len(a) # Len(b) THEN Len(a) < Len(b) ELSE less_from(a, b, Len(a))

\* the bits of a digit
bits(k) == Cardinality({i \in 0..(DigitBits - 1) : 2^i <= k})

bit_length(n) ==
    IF n = <<>> THEN 0 ELSE DigitBits * (Len(n) - 1) + bits(n[Len(n)])

\* n * 2^k
shift_left(n, k) ==
    IF n = <<>> THEN <<>>
    ELSE [i \in 1..(k \div DigitBits) |-> 0]
            \o carry([i \in 1..Len(n) |-> n[i] * 2^(k % DigitBits)])

\* n div 2^k
shift_right(n, k) ==
    LET d == k \div DigitBits
        r == k % DigitBits
    IN  IF Len(n) <= d THEN <<>>
        ELSE trim([i \in 1..(Len(n) - d) |->
                     (n[i + d] \div 2^r)
                        + (digit(n, i + d + 1) % 2^r) * 2^(DigitBits - r)])

\* bit k of n, the lowest bit being bit 0
bit(n, k) == (digit(n, k \div DigitBits + 1) \div 2^(k % DigitBits)) % 2

\* the k lowest bits of n are zero
low_zero(n, k) ==
    /\ \A i \in 1..(k \div DigitBits) : digit(n, i) = 0
    /\ digit(n, k \div DigitBits + 1) % 2^(k % DigitBits) = 0

zero == [m |-> <<>>, e |-> 0, neg |-> FALSE]

(* k steps of a computation from the state s, in ten stages of at most      *)
(* (k + 9) div 10 steps each.  TLC evaluates an expression when its value   *)
(* is first needed and the elements of a tuple in their order: the tuple    *)
(* makes it evaluate s, and then each stage, before it turns to the next.   *)
RECURSIVE repeat(_, _, _)
repeat(step(_), s, k) ==
    IF k = 0 THEN s
    ELSE IF k = 1 THEN step(s)
    ELSE LET stage(i) == Max(0, Min((k + 9) \div 10, k - (i - 1) * ((k + 9) \div 10)))
             s1 == repeat(step, s, stage(1))
             s2 == repeat(step, s1, stage(2))
             s3 == repeat(step, s2, stage(3))
             s4 == repeat(step, s3, stage(4))
             s5 == repeat(step, s4, stage(5))
             s6 == repeat(step, s5, stage(6))
             s7 == repeat(step, s6, stage(7))
             s8 == repeat(step, s7, stage(8))
             s9 == repeat(step, s8, stage(9))
         IN  <<s, s1, s2, s3, s4, s5, s6, s7, s8, s9,
               repeat(step, s9, stage(10))>>[11]

\* a mantissa of one bit too many loses its lowest bit, which is 0
normal(m, e, neg) ==
    IF bit_length(m) > MantissaBits
    THEN [m |-> shift_right(m, 1), e |-> e + 1, neg |-> neg]
    ELSE [m |-> m, e |-> e, neg |-> neg]

\* n without its s lowest bits is rounded up: the bits dropped are more than
\* half of the last place kept, or half of it and the last place is odd
rounds_up(n, s, sticky) ==
    /\ bit(n, s - 1) = 1
    /\ (sticky \/ ~low_zero(n, s - 1) \/ bit(n, s) = 1)

\* round_even for a number of s bits more than a mantissa holds
round_bits(r, s) ==
    IF s <= 0 THEN [m |-> shift_left(r.m, -s), e |-> r.e + s, neg |-> r.neg]
    ELSE normal(nat_add(shift_right(r.m, s),
                        IF rounds_up(r.m, s, r.sticky) THEN <<1>> ELSE <<>>),
                r.e + s, r.neg)

\* the double nearest to the number r, ties to even.  r is [m, e, neg,
\* sticky]: m * 2^e, or a little more than that when sticky (a division
\* left a remainder), negative when neg
round_even(r) ==
    IF r.m = <<>> THEN zero ELSE round_bits(r, bit_length(r.m) - MantissaBits)

\* the number m * 2^e
exactly(m, e, neg) == [m |-> m, e |-> e, neg |-> neg, sticky |-> FALSE]

\* a + b for two numbers of one exponent e, negative when aneg and bneg
add_aligned(a, aneg, b, bneg, e) ==
    IF aneg = bneg THEN exactly(nat_add(a, b), e, aneg)
    ELSE IF nat_less(a, b) THEN exactly(nat_sub(b, a), e, bneg)
    ELSE exactly(nat_sub(a, b), e, aneg)

\* x + y before it is rounded, or x - y when minus
exact_add(x, y, minus) ==
    add_aligned(shift_left(x.m, x.e - Min(x.e, y.e)), x.neg,
                shift_left(y.m, y.e - Min(x.e, y.e)), y.neg # minus,
                Min(x.e, y.e))

\* x * y before it is rounded
exact_mul(x, y) == exactly(nat_mul(x.m, y.m), x.e + y.e, x.neg # y.neg)

\* one place of a long division in base 2 by d: r2 and q2 are the remainder
\* and the quotient so far, doubled
place(r2, q2, d) ==
    IF nat_less(r2, d) THEN [quotient |-> q2, remainder |-> r2]
    ELSE [quotient |-> nat_add(q2, <<1>>), remainder |-> nat_sub(r2, d)]

division_step(s, d) ==
    place(nat_add(s.remainder, s.remainder), nat_add(s.quotient, s.quotient), d)

\* k places of the long division
long_division(s, d, k) == repeat(LAMBDA t : division_step(t, d), s, k)

\* the quotient d of a long division as a number
quotient_of(d, e, neg) ==
    [m |-> d.quotient, e |-> e, neg |-> neg, sticky |-> d.remainder # <<>>]

\* x / y before it is rounded, for y # 0 (a division by zero raises
\* ZeroDivisionError): the quotient of the mantissas, which is 0 or 1, and
\* two places more than a mantissa holds
exact_div(x, y) ==
    CASE y.m # <<>> ->
        quotient_of(long_division(place(x.m, <<>>, y.m), y.m, MantissaBits + 2),
                    x.e - y.e - (MantissaBits + 2), x.neg # y.neg)

\* one place of a square root in base 2: r4 is the remainder so far with the
\* next two bits of the number behind it, q2 the root so far, doubled
root_place(r4, q2, i) ==
    IF nat_less(r4, nat_add(nat_add(q2, q2), <<1>>))
    THEN [root |-> q2, remainder |-> r4, i |-> i]
    ELSE [root |-> nat_add(q2, <<1>>),
          remainder |-> nat_sub(r4, nat_add(nat_add(q2, q2), <<1>>)),
          i |-> i]

\* the place of the bits 2 * i - 1 and 2 * i - 2 of n
root_step(n, s) ==
    root_place(nat_add(shift_left(s.remainder, 2),
                       nat(2 * bit(n, 2 * s.i - 1) + bit(n, 2 * s.i - 2))),
               nat_add(s.root, s.root), s.i - 1)

\* the whole part of the square root of n, and what n has more than its
\* square
whole_root(n) ==
    repeat(LAMBDA s : root_step(n, s),
           [root |-> <<>>, remainder |-> <<>>, i |-> (bit_length(n) + 1) \div 2],
           (bit_length(n) + 1) \div 2)

\* the root r of m * 2^(2 * h) as a number
root_of(r, h) ==
    [m |-> r.root, e |-> h, neg |-> FALSE, sticky |-> r.remainder # <<>>]

\* the square root of x >= 0 before it is rounded: the mantissa gets k more
\* bits, five or six more than a mantissa holds, which leave an even
\* exponent, and the root three places more than a mantissa holds
shifted_root(x, k) == root_of(whole_root(shift_left(x.m, k)), (x.e - k) \div 2)

exact_sqrt(x) ==
    shifted_root(x, MantissaBits + 5 + ((x.e + MantissaBits + 5) % 2))

\* |x| < |y|
magnitude_less(x, y) ==
    IF x.m = <<>> THEN y.m # <<>>
    ELSE IF y.m = <<>> THEN FALSE
    ELSE IF x.e # y.e THEN x.e < y.e
    ELSE nat_less(x.m, y.m)

\* x < y
float_less(x, y) ==
    IF x.neg # y.neg THEN x.neg
    ELSE IF x.neg THEN magnitude_less(y, x)
    ELSE magnitude_less(x, y)

\* min(x, y): y when y < x, else x
py_min(x, y) == IF float_less(y, x) THEN y ELSE x

\* max(x, y): y when y > x, else x
py_max(x, y) == IF float_less(x, y) THEN y ELSE x

\* n hundredths, rounded at bit s: the integer nearest to n / 2^s, ties to
\* even
hundredths(n, s, neg) ==
    (IF neg THEN -1 ELSE 1)
        * int_of(nat_add(shift_right(n, s),
                         IF rounds_up(n, s, FALSE) THEN <<1>> ELSE <<>>))

\* round(x, 2) in hundredths: the decimal nearest to the double, ties to even
round_2(x) ==
    IF x.m = <<>> THEN 0 ELSE hundredths(nat_mul(x.m, nat(100)), -x.e, x.neg)

\* the double before x, for x > 0
prev_float(x) ==
    IF x.m = shift_left(<<1>>, MantissaBits - 1)
    THEN exactly(nat_sub(nat_add(x.m, x.m), <<1>>), x.e - 1, FALSE)
    ELSE exactly(nat_sub(x.m, <<1>>), x.e, FALSE)

(* math.log10 is the logarithm of the C library, which is not rounded to    *)
(* the nearest double: the library answers within a few units of the last   *)
(* place, and which double it answers depends on the library and on the     *)
(* processor.  The logarithm of a power of ten is exact.  For any other     *)
(* x >= 1 the model computes the logarithm to LogPlaces binary places, and  *)
(* the library answers the double that is ulps doubles above the last       *)
(* double below the logarithm.                                              *)

\* the binary places of the fixed-point numbers, and of the logarithm
LogPlaces == 80

LogBits == LogPlaces + 4

LibmErrors == {-1, 0, 1, 2}

\* x >= 10^k, for a float x = m * 2^e with e <= 0
at_least_power(x, k) == ~nat_less(x.m, shift_left(nat(10^k), -x.e))

\* the whole part of the logarithm: the largest k with 10^k <= x
RECURSIVE whole_log(_, _)
whole_log(x, k) == IF at_least_power(x, k + 1) THEN whole_log(x, k + 1) ELSE k

\* one digit of a short division by d: i the digit to divide, r the
\* remainder of the digits above it, q the digits of the quotient so far
short_step(n, d, s) ==
    [i |-> s.i - 1,
     r |-> (s.r * Base + n[s.i]) % d,
     q |-> <<(s.r * Base + n[s.i]) \div d>> \o s.q]

\* n div d for a divisor of one digit
short_division(n, d) ==
    trim(repeat(LAMBDA s : short_step(n, d, s),
                [i |-> Len(n), r |-> 0, q |-> <<>>], Len(n)).q)

\* n div 10^k
div_power(n, k) == repeat(LAMBDA q : short_division(q, 10), n, k)

\* 10, in fixed point
Ten == shift_left(nat(10), LogBits)

\* the place after a squaring: a square of 10 or more gives the place 1 and
\* is divided by 10
log_place(square, places) ==
    IF nat_less(square, Ten) THEN [y |-> square, places |-> places]
    ELSE [y |-> short_division(square, 10), places |-> nat_add(places, <<1>>)]

\* one binary place of the logarithm of y, 1 <= y < 10 in fixed point:
\* squaring y doubles the logarithm
log_step(s) ==
    log_place(shift_right(nat_mul(s.y, s.y), LogBits), nat_add(s.places, s.places))

\* k binary places of the logarithm
log_places(s, k) == repeat(log_step, s, k)

\* the double of the highest MantissaBits bits of the logarithm n, which
\* has LogPlaces binary places
highest_bits(n) ==
    exactly(shift_right(n, bit_length(n) - MantissaBits),
            bit_length(n) - MantissaBits - LogPlaces, FALSE)

\* the last double that is not above the logarithm of x, for x >= 1 with
\* the whole part k of the logarithm
log10_below(x, k) ==
    highest_bits(log_places([y |-> div_power(shift_left(x.m, LogBits + x.e), k),
                             places |-> nat(k)],
                            LogPlaces).places)

\* the double ulps doubles from the double below
nudged(below, ulps) ==
    IF ulps < 0 THEN prev_float(below)
    ELSE exactly(nat_add(below.m, nat(ulps)), below.e, FALSE)

\* math.log10(x) for x >= 1 with the whole part k of the logarithm
log10_from(x, ulps, k) ==
    IF x.m = shift_left(nat(10^k), -x.e) THEN exactly(nat(k), 0, FALSE)
    ELSE nudged(log10_below(x, k), ulps)

\* math.log10(x) before the double is normalised
exact_log10(x, ulps) == log10_from(x, ulps, whole_log(x, 0))

(* The arithmetic of rank_comprehensive is kept as the program writes it:   *)
(* an expression is its syntax tree and a statement a record, under the     *)
(* node names of Python's ast module, and eval and run compute them as the  *)
(* interpreter does.  An environment maps the names assigned so far to      *)
(* their floats; ulps is the error of math.log10.                           *)

\* an int literal k >= 0
Integer(k) == [node |-> "Integer", k |-> k]

\* a float literal of h hundredths (0.3 is Constant(30)), and a number of h
\* hundredths read from a JSON value
Constant(h) == [node |-> "Constant", h |-> h]

Name(id) == [node |-> "Name", id |-> id]

\* left op right, op one of Add, Sub, Mult, Div
BinOp(left, op, right) == [node |-> "BinOp", left |-> left, op |-> op, right |-> right]

\* left > right
Gt(left, right) == [node |-> "Compare", left |-> left, right |-> right]

\* func(left, right), func one of min, max
Call(func, left, right) == [node |-> "Call", func |-> func, left |-> left, right |-> right]

\* math.log10(x)
Log10(x) == [node |-> "Log10", left |-> x]

Assign(id, e) == [node |-> "Assign", id |-> id, value |-> e]

\* id op= e
AugAssign(id, op, e) == Assign(id, BinOp(Name(id), op, e))

\* if test: body
If(test, body) == [node |-> "If", test |-> test, body |-> body]

\* the operands an operator takes
arity(e) ==
    CASE e.node \in {"Name", "Integer"} -> 0
      [] e.node = "Log10" -> 1
      [] OTHER -> 2

\* the nodes of an expression in the order the interpreter computes them:
\* the operands from left to right, then the operator.  The double of a
\* literal is the quotient of two whole numbers, rounded once.
RECURSIVE postfix(_)
postfix(e) ==
    CASE arity(e) = 0 -> <<e>>
      [] e.node = "Constant" -> postfix(BinOp(Integer(e.h), "Div", Integer(100)))
      [] arity(e) = 1 -> postfix(e.left) \o <<e>>
      [] OTHER -> postfix(e.left) \o postfix(e.right) \o <<e>>

\* the number of an operator e on the floats x and y before it is rounded
\* to a double
exact(e, x, y, ulps) ==
    CASE e.node = "Integer" -> exactly(nat(e.k), 0, FALSE)
      [] e.node = "Compare" ->
            exactly(IF float_less(y, x) THEN <<1>> ELSE <<>>, 0, FALSE)  \* True is 1
      [] e.node = "Log10" -> exact_log10(x, ulps)
      [] e.node = "BinOp" /\ e.op \in {"Add", "Sub"} -> exact_add(x, y, e.op = "Sub")
      [] e.node = "BinOp" /\ e.op = "Mult" -> exact_mul(x, y)
      [] e.node = "BinOp" /\ e.op = "Div" -> exact_div(x, y)

\* the float of an operator e on the floats x and y
apply(e, env, x, y, ulps) ==
    CASE e.node = "Name" -> env[e.id]
      [] e.node = "Call" /\ e.func = "min" -> py_min(x, y)
      [] e.node = "Call" /\ e.func = "max" -> py_max(x, y)
      [] OTHER -> round_even(exact(e, x, y, ulps))

\* the float i places below the top of a stack of floats
operand(stack, i) ==
    IF i < Len(stack) THEN stack[Len(stack) - i] ELSE zero

\* one node of an expression: its operands leave the stack and its float
\* is pushed
eval_step(code, env, ulps, s) ==
    [pc |-> s.pc + 1,
     stack |-> Append(SubSeq(s.stack, 1, Len(s.stack) - arity(code[s.pc])),
                      apply(code[s.pc], env, operand(s.stack, arity(code[s.pc]) - 1),
                            operand(s.stack, 0), ulps))]

\* the float the nodes of code leave on the stack
computed(code, env, ulps) ==
    repeat(LAMBDA s : eval_step(code, env, ulps, s), [pc |-> 1, stack |-> <<>>],
           Len(code)).stack[1]

\* the float of an expression
eval(e, env, ulps) == computed(postfix(e), env, ulps)

RECURSIVE run(_, _, _)
\* the environment after a statement whose expression (the test of an if,
\* the right side of an assignment) has the value v
effect(statement, env, ulps, v) ==
    IF statement.node = "Assign" THEN (statement.id :> v) @@ env
    ELSE IF v # zero THEN run(statement.body, env, ulps)
    ELSE env

execute(statement, env, ulps) ==
    effect(statement, env, ulps,
           eval(IF statement.node = "If" THEN statement.test ELSE statement.value,
                env, ulps))

\* the environment after the statements of body
run(body, env, ulps) ==
    repeat(LAMBDA s : [pc |-> s.pc + 1, env |-> execute(body[s.pc], s.env, ulps)],
           [pc |-> 1, env |-> env], Len(body)).env

\* the float of an int k >= 0, and of a number of h hundredths
float(k) == eval(Integer(k), <<>>, 0)

decimal(h) == eval(Constant(h), <<>>, 0)

\* math.log10(x) for a float x >= 1
log10(x, ulps) == eval(Log10(Name("x")), [x |-> x], ulps)

\* a >= b for two sort keys: two floats, or two fractions with positive
\* denominators
score_geq(a, b) ==
    IF "m" \in DOMAIN a THEN ~float_less(a, b)
    ELSE a.num * b.den >= b.num * a.den

\* the place of a new item in a list sorted from high to low: after every
\* item that is at least as high, so that equal items keep their input order
insert_desc(s, x) ==
    LET k == Cardinality({i \in DOMAIN s : score_geq(s[i].key, x.key)})
    IN  SubSeq(s, 1, k) \o <<x>> \o SubSeq(s, k + 1, Len(s))

\* list.sort(key=lambda x: x["score"], reverse=True): stable, high to low
RECURSIVE sort_reverse(_)
sort_reverse(items) ==
    IF items = <<>> THEN <<>>
    ELSE insert_desc(sort_reverse(SubSeq(items, 1, Len(items) - 1)), items[Len(items)])

default_limit == 20

\* ranked_fiis[:limit]: the first limit items, and under a negative limit
\* every item but the last -limit
take(s, limit) ==
    SubSeq(s, 1, IF limit < 0 THEN Max(0, Len(s) + limit) ELSE Min(Len(s), limit))

\* a position that repeats the index of enumerate
rank_position_from_zero(i) == i

\* "rank_position": i + 1 for the index i of enumerate, which starts at 0
rank_position_of(i) == i + 1

\* db.query(FIIAnalysis).filter(FIIAnalysis.session_id == session_id).all()
analyses_of(table, session_id) ==
    SelectSeq(table, LAMBDA a : a.session_id = session_id)

rank_by_dividend_yield(table, session_id, limit) ==
    LET qualifying == SelectSeq(analyses_of(table, session_id),
                                LAMBDA a : dividend_yield_of(a) # None)
        ranked_fiis == sort_reverse(
            [i \in DOMAIN qualifying |->
                [analysis_id |-> qualifying[i].id,
                 key |-> [num |-> dividend_yield_of(qualifying[i])[1], den |-> 1],
                 metric_value |-> dividend_yield_of(qualifying[i])[1]]])
        top == take(ranked_fiis, limit)
    IN  [i \in DOMAIN top |->
            [rank_position |-> rank_position_of(i - 1),
             analysis_id |-> top[i].analysis_id,
             score |-> top[i].metric_value,
             metric_details |-> [dividend_yield |-> top[i].metric_value]]]

rank_by_pvp_ratio(table, session_id, limit) ==
    LET qualifying == SelectSeq(analyses_of(table, session_id),
                                LAMBDA a : /\ pvp_ratio_of(a) # None
                                           /\ pvp_ratio_of(a)[1] > 0)
        \* the sort key is 1 / pvp
        ranked_fiis == sort_reverse(
            [i \in DOMAIN qualifying |->
                [analysis_id |-> qualifying[i].id,
                 key |-> [num |-> 100, den |-> pvp_ratio_of(qualifying[i])[1]],
                 metric_value |-> pvp_ratio_of(qualifying[i])[1]]])
        top == take(ranked_fiis, limit)
    IN  [i \in DOMAIN top |->
            [rank_position |-> rank_position_of(i - 1),
             analysis_id |-> top[i].analysis_id,
             score |-> top[i].metric_value,
             metric_details |-> [pvp_ratio |-> top[i].metric_value]]]

Components == {"dividend_yield", "pvp_ratio", "liquidity", "risk_rating", "recommendation"}

\* the weights of the components, in hundredths
weights ==
    [dividend_yield |-> 30, pvp_ratio |-> 25, liquidity |-> 20, risk_rating |-> 15,
     recommendation |-> 10]

\* the variable rank_comprehensive keeps the score of a component in
ScoreNames ==
    [dividend_yield |-> "dy_score", pvp_ratio |-> "pvp_score", liquidity |-> "liq_score",
     risk_rating |-> "risk_score", recommendation |-> "rec_score"]

\* risk_scores and rec_scores, in hundredths
RiskScores == [LOW |-> 100, MEDIUM |-> 70, HIGH |-> 30]

RecScores == [BUY |-> 100, HOLD |-> 60, SELL |-> 20]

\* risk_scores.get(risk_rating, 0.5)
risk_scores(risk_rating) ==
    IF risk_rating \in DOMAIN RiskScores THEN RiskScores[risk_rating] ELSE 50

\* rec_scores.get(investment_recommendation, 0.5)
rec_scores(investment_recommendation) ==
    IF investment_recommendation \in DOMAIN RecScores
    THEN RecScores[investment_recommendation]
    ELSE 50

\* total_score += score * weight; weight_sum += weight
weigh(component) ==
    <<AugAssign("total_score", "Add",
                BinOp(Name(ScoreNames[component]), "Mult", Constant(weights[component]))),
      AugAssign("weight_sum", "Add", Constant(weights[component]))>>

\* the statements of the loop of rank_comprehensive that compute with
\* floats, for the dy, pvp and liquidity extracted from an analysis and its
\* two ratings
loop_body(dy, pvp, liquidity, risk_rating, investment_recommendation) ==
    <<Assign("total_score", Integer(0)), Assign("weight_sum", Integer(0))>>
    \o (IF dy # None /\ dy[1] > 0                  \* if dy is not None and dy > 0:
        THEN <<Assign("dy", Constant(dy[1])),
               Assign("dy_score",
                      Call("min", BinOp(Name("dy"), "Div", Constant(1500)),
                           Constant(100)))>>
             \o weigh("dividend_yield")
        ELSE <<>>)
    \o (IF pvp # None /\ pvp[1] > 0              \* if pvp is not None and pvp > 0:
        THEN <<Assign("pvp", Constant(pvp[1])),
               Assign("pvp_score",
                      Call("max", Integer(0),
                           BinOp(BinOp(Constant(200), "Sub", Name("pvp")), "Div",
                                 Constant(150))))>>
             \o weigh("pvp_ratio")
        ELSE <<>>)
    \o (IF liquidity # None /\ liquidity[1] > 0
        THEN <<Assign("liquidity", Constant(liquidity[1])),
               Assign("liq_score",
                      Call("min",
                           BinOp(Log10(BinOp(Name("liquidity"), "Add", Integer(1))), "Div",
                                 Constant(600)),
                           Constant(100)))>>
             \o weigh("liquidity")
        ELSE <<>>)
    \o (IF truthy_text(risk_rating)                      \* if analysis.risk_rating:
        THEN <<Assign("risk_score", Constant(risk_scores(risk_rating[1])))>>
             \o weigh("risk_rating")
        ELSE <<>>)
    \o (IF truthy_text(investment_recommendation)
        THEN <<Assign("rec_score", Constant(rec_scores(investment_recommendation[1])))>>
             \o weigh("recommendation")
        ELSE <<>>)
    \o <<If(Gt(Name("weight_sum"), Integer(0)),                    \* if weight_sum > 0:
            <<Assign("final_score",
                     BinOp(Name("total_score"), "Div", Name("weight_sum")))>>)>>

\* what the loop of rank_comprehensive has computed for one analysis, env
\* the variables after the loop body
scored_fii(env) ==
    [components |-> {c \in Components : ScoreNames[c] \in DOMAIN env},
     weight_coverage |-> env["weight_sum"],
     qualifies |-> "final_score" \in DOMAIN env,
     final_score |-> IF "final_score" \in DOMAIN env THEN env["final_score"] ELSE zero]

\* the loop body for one analysis; ulps is the error of math.log10
score_item(analysis, ulps) ==
    scored_fii(run(loop_body(dividend_yield_of(analysis), pvp_ratio_of(analysis),
                             liquidity_of(analysis), analysis.risk_rating,
                             analysis.investment_recommendation),
                   <<>>, ulps))

\* round(score * 100, 2), in hundredths of a percent
percentage(score) ==
    round_2(eval(BinOp(Name("score"), "Mult", Integer(100)), [score |-> score], 0))

\* the reports of the ranking runs
Metrics(dividend_yield, dy, pvp_ratio, p_vp) ==
    Some([dividend_yield |-> dividend_yield, dy |-> dy,
          pvp_ratio |-> pvp_ratio, p_vp |-> p_vp])

Market(dividend_yield, pvp_ratio, liquidity_score, avg_volume) ==
    Some([dividend_yield |-> dividend_yield, pvp_ratio |-> pvp_ratio,
          liquidity_score |-> liquidity_score, avg_volume |-> avg_volume])

\* yield 12.0 and P/VP 0.85, low risk, buy
ReportA == Report(Metrics(Num(1200), Null, Num(85), Null), None, Some("LOW"), Some("BUY"))

\* yield 9.0 and P/VP 1.20, medium risk, hold
ReportB == Report(Metrics(Num(900), Null, Num(120), Null), None, Some("MEDIUM"), Some("HOLD"))

\* nothing reported: "N/A" in the metrics, the zero sentinels in the market data
ReportNA == Report(Metrics(NA, Null, NA, Null), Market(Num(0), Num(0), Null, Null), None, None)

\* no metrics, no market data, no ratings
ReportEmpty == Report(None, None, None, None)

\* a P/VP of 0.20 and nothing else
ReportCheap == Report(Metrics(Null, Null, Num(20), Null), None, None, None)

\* yield "20,00%", P/VP 2.50, liquidity 9,999,999, high risk, sell
ReportRich ==
    Report(Metrics(Str(2000), Null, Num(250), Null),
           Market(Null, Null, Num(999999900), Null), Some("HIGH"), Some("SELL"))

\* market data only: yield 8.0, P/VP 1.00, volume 999, labels outside the tables
ReportMarket ==
    Report(Metrics(Null, Null, Null, Null),
           Market(Num(800), Num(100), Null, Num(99900)),
           Some("SPECULATIVE"), Some("STRONG_BUY"))

\* the second key of each metric: dy 12.0, p_vp 0.85
ReportAlt == Report(Metrics(Null, Num(1200), Null, Num(85)), None, None, None)

\* a yield of 0 and a P/VP of 0 in the metrics, 12.0 and 0.50 in the market data
ReportZero ==
    Report(Metrics(Num(0), Null, Num(0), Null), Market(Num(1200), Num(50), Null, Null),
           None, None)

\* yield 9.0 and P/VP 1.20 with an empty risk rating and an empty recommendation
ReportBlank == Report(Metrics(Num(900), Null, Num(120), Null), None, Some(""), Some(""))

\* a volume of 500 and nothing else
ReportLiquid == Report(None, Market(Null, Null, Null, Num(50000)), None, None)

\* yield 9.0 and P/VP 1.10: three fifths as a fraction
ReportTie == Report(Metrics(Num(900), Null, Num(110), Null), None, None, None)

\* yield 6.0, low risk, hold: three fifths as a fraction
ReportEven == Report(Metrics(Num(600), Null, Null, Null), None, Some("LOW"), Some("HOLD"))

RankReports ==
    {ReportA, ReportB, ReportNA, ReportEmpty, ReportCheap, ReportRich, ReportMarket,
     ReportAlt, ReportZero, ReportBlank, ReportLiquid, ReportTie, ReportEven}

\* n is a power of ten
RECURSIVE power_of_ten(_)
power_of_ten(n) == n = 1 \/ (n > 1 /\ n % 10 = 0 /\ power_of_ten(n \div 10))

\* rank_comprehensive takes math.log10(liquidity + 1) of the analysis, and
\* liquidity + 1 is no power of ten: the logarithm is not exact
inexact_log10(analysis) ==
    LET liquidity == liquidity_of(analysis)
    IN  /\ liquidity # None
        /\ liquidity[1] > 0
        /\ ~(liquidity[1] % 100 = 0 /\ power_of_ten(liquidity[1] \div 100 + 1))

\* the scores of the reports of the ranking runs, computed once: a table of
\* the report, the error of math.log10 and what the loop computes
Scores ==
    {[report |-> r, ulps |-> ulps, item |-> score_item(r, ulps)] :
        <<r, ulps>> \in {x \in RankReports \X LibmErrors :
                            x[2] = 0 \/ inexact_log10(x[1])}}

\* the score of a stored analysis
score_of(analysis, ulps) ==
    LET r == Report(analysis.financial_metrics, analysis.market_data,
                    analysis.risk_rating, analysis.investment_recommendation)
    IN  IF r \in RankReports
        THEN (CHOOSE s \in Scores : s.report = r /\ s.ulps = ulps).item
        ELSE score_item(analysis, ulps)

\* the liquidities of a session for which math.log10(liquidity + 1) is not
\* exact
log10_arguments(table, session_id) ==
    {liquidity_of(table[i])[1] :
        i \in {j \in DOMAIN table : /\ table[j].session_id = session_id
                                     /\ inexact_log10(table[j])}}

\* the errors of math.log10 after the library has answered for the
\* arguments of a session: its earlier answers stay, since the library
\* answers the same for the same argument
libm_after(table, session_id) ==
    {errors \in [DOMAIN libm \cup log10_arguments(table, session_id) -> LibmErrors] :
        \A x \in DOMAIN libm : errors[x] = libm[x]}

\* the error of math.log10 for the liquidity of an analysis
ulps_of(analysis, errors) ==
    IF liquidity_of(analysis) # None /\ liquidity_of(analysis)[1] \in DOMAIN errors
    THEN errors[liquidity_of(analysis)[1]]
    ELSE 0

\* scored_fiis.append({...}): what the loop keeps of an analysis
appended(analysis_id, item) ==
    [analysis_id |-> analysis_id,
     qualifies |-> item.qualifies,
     key |-> item.final_score,
     components |-> item.components,
     weight_coverage |-> item.weight_coverage]

\* scored_fiis after the loop over the analyses: those with a weight_sum
\* above 0
scored_fiis(listed, errors) ==
    SelectSeq([i \in DOMAIN listed |->
                  appended(listed[i].id, score_of(listed[i], ulps_of(listed[i], errors)))],
              LAMBDA s : s.qualifies)

\* the rankings list of the sorted items top
comprehensive_rankings(top) ==
    [i \in DOMAIN top |->
        [rank_position |-> rank_position_of(i - 1),
         analysis_id |-> top[i].analysis_id,
         score |-> percentage(top[i].key),
         metric_details |-> [comprehensive_score |-> top[i].key,
                             components |-> top[i].components,
                             weight_coverage |-> top[i].weight_coverage]]]

rank_comprehensive(table, session_id, limit, errors) ==
    comprehensive_rankings(
        take(sort_reverse(scored_fiis(analyses_of(table, session_id), errors)), limit))

----------------------------------------------------------------------------
(* The fii_ranking table and the operations that compute and store rankings *)

RankingTypes == {"dividend_yield", "pvp_ratio", "comprehensive"}

\* the rows save_ranking adds for a computed ranking
ranking_rows(session_id, ranking_type, ranking) ==
    [i \in DOMAIN ranking |->
        [session_id |-> session_id,
         ranking_type |-> ranking_type,
         rank_position |-> ranking[i].rank_position,
         score |-> ranking[i].score,
         analysis_id |-> ranking[i].analysis_id,
         comparison_metrics |-> ranking[i].metric_details]]

\* the stored rows of one (session_id, ranking_type) pair
stored_ranking(table, session_id, ranking_type) ==
    SelectSeq(table, LAMBDA r : r.session_id = session_id /\ r.ranking_type = ranking_type)

\* save_ranking: the rows of the pair are deleted and the new ones added, in
\* one transaction
save_ranking(table, session_id, ranking_type, ranking) ==
    SelectSeq(table, LAMBDA r : ~(r.session_id = session_id /\ r.ranking_type = ranking_type))
       \o ranking_rows(session_id, ranking_type, ranking)

\* the calls of generate_all_rankings that can run at the same time
MaxGenerators == 1

\* the try block generate_all_rankings turns to after the one of ranking_type
next_type(ranking_type) ==
    CASE ranking_type = "dividend_yield" -> "pvp_ratio"
      [] ranking_type = "pvp_ratio" -> "comprehensive"
      [] OTHER -> "none"

\* the ranking function generate_all_rankings calls for a ranking type
rank_op(ranking_type) ==
    CASE ranking_type = "dividend_yield" -> "rank_by_dividend_yield"
      [] ranking_type = "pvp_ratio" -> "rank_by_pvp_ratio"
      [] OTHER -> "rank_comprehensive"

rank_of(ranking_type, table, session_id, errors) ==
    CASE ranking_type = "dividend_yield" ->
            rank_by_dividend_yield(table, session_id, default_limit)
      [] ranking_type = "pvp_ratio" ->
            rank_by_pvp_ratio(table, session_id, default_limit)
      [] OTHER -> rank_comprehensive(table, session_id, default_limit, errors)

\* the errors of math.log10 after the ranking function of a ranking type:
\* only rank_comprehensive calls math.log10
libm_of(ranking_type, table, session_id) ==
    IF ranking_type = "comprehensive" THEN libm_after(table, session_id) ELSE {libm}

\* a call of generate_all_rankings that has left the try block of its
\* ranking type: the next try block, or return results
advance(c) ==
    IF c.ranking_type = "comprehensive" THEN [c EXCEPT !.pc = "return"]
    ELSE [c EXCEPT !.pc = "rank", !.ranking_type = next_type(@)]

\* xx_rankings = self.rank_xx(session_id); if xx_rankings: ...
after_rank(c, ranking) ==
    IF ranking # <<>>
    THEN [c EXCEPT !.computed[c.ranking_type] = ranking, !.pc = "save"]
    ELSE advance([c EXCEPT !.computed[c.ranking_type] = ranking])

\* self.save_ranking(...); results[type] = len(xx_rankings): the value
\* save_ranking returns is not read
after_save(c) ==
    advance([c EXCEPT !.results[c.ranking_type] =
                           Some(Len(c.computed[c.ranking_type]))])

\* generate_all_rankings reads fii_analysis three times, each time in a
\* database session of its own, and commits each ranking it saves in a
\* further one: other callers run between these steps.  txn[p] is the call
\* of caller p: its session_id, the ranking types whose save meets a database
\* error (failing), the try block it is in, the rankings it has computed and
\* the results it has collected.  The call and its first statement,
\* rank_by_dividend_yield:
generate_all_rankings(session_id, failing) ==
    LET ranking == rank_by_dividend_yield(analyses, session_id, default_limit)
        called == [op |-> "generate_all_rankings",
                   session_id |-> session_id,
                   failing |-> failing,
                   pc |-> "rank",
                   ranking_type |-> "dividend_yield",
                   computed |-> [dividend_yield |-> <<>>, pvp_ratio |-> <<>>,
                                 comprehensive |-> <<>>],
                   results |-> [dividend_yield |-> None, pvp_ratio |-> None,
                                comprehensive |-> None]]
    IN  /\ Len(txn) < MaxGenerators
        /\ txn' = Append(txn, after_rank(called, ranking))
        /\ rcall' = [op |-> "rank_by_dividend_yield", session_id |-> session_id,
                     branch |-> "none"]
        /\ rret' = ranking
        /\ UNCHANGED <<now, analyses, rankings, libm>>

\* pvp_rankings = self.rank_by_pvp_ratio(session_id), and
\* comp_rankings = self.rank_comprehensive(session_id)
generate_rank(p) ==
    LET c == txn[p]
    IN  /\ c.op = "generate_all_rankings"
        /\ c.pc = "rank"
        /\ \E errors \in libm_of(c.ranking_type, analyses, c.session_id) :
              /\ rret' = rank_of(c.ranking_type, analyses, c.session_id, errors)
              /\ txn' = [txn EXCEPT ![p] = after_rank(c, rret')]
              /\ libm' = errors
        /\ rcall' = [op |-> rank_op(c.ranking_type), session_id |-> c.session_id,
                     branch |-> "none"]
        /\ UNCHANGED <<now, analyses, rankings>>

\* a call of save_ranking: the rows of the pair are replaced and True is
\* returned, or the database error is caught and False is returned
save_ranking_call(session_id, ranking_type, ranking, failing) ==
    /\ rcall' = [op |-> "save_ranking", session_id |-> session_id,
                 branch |-> IF ranking_type \in failing THEN "failed" ELSE "saved",
                 ranking_type |-> ranking_type, ranking |-> ranking]
    /\ rankings' = IF ranking_type \in failing THEN rankings
                   ELSE save_ranking(rankings, session_id, ranking_type, ranking)
    /\ rret' = (ranking_type \notin failing)
    /\ UNCHANGED <<now, analyses>>

\* self.save_ranking(session_id, type, xx_rankings) of a ranking that is not
\* empty
generate_save(p) ==
    LET c == txn[p]
    IN  /\ c.op = "generate_all_rankings"
        /\ c.pc = "save"
        /\ save_ranking_call(c.session_id, c.ranking_type, c.computed[c.ranking_type],
                             c.failing)
        /\ txn' = [txn EXCEPT ![p] = after_save(c)]
        /\ UNCHANGED libm

\* return results
generate_return(p) ==
    LET c == txn[p]
    IN  /\ c.op = "generate_all_rankings"
        /\ c.pc = "return"
        /\ rcall' = [op |-> "generate_all_rankings", session_id |-> c.session_id,
                     branch |-> "none", failing |-> c.failing]
        /\ rret' = c.results
        /\ txn' = Without(txn, {p})
        /\ UNCHANGED <<now, analyses, rankings, libm>>

\* a call of one of the ranking functions: it reads the table and returns
ranking_call(op, session_id, ranking) ==
    /\ rcall' = [op |-> op, session_id |-> session_id, branch |-> "none"]
    /\ rret' = ranking
    /\ UNCHANGED <<now, analyses, rankings>>

\* the JSON columns and the ratings of a stored analysis are written again
revise_analysis(analysis_id, report) ==
    /\ rcall' = [op |-> "revise_analysis", session_id |-> "", branch |-> "none"]
    /\ \E i \in DOMAIN analyses :
          /\ analyses[i].id = analysis_id
          /\ analyses' = [analyses EXCEPT ![i] =
                [@ EXCEPT !.financial_metrics = report.financial_metrics,
                          !.market_data = report.market_data,
                          !.risk_rating = report.risk_rating,
                          !.investment_recommendation = report.investment_recommendation]]
    /\ rret' = None
    /\ UNCHANGED <<now, rankings, libm>>

RankByDividendYield(ids, limits) ==
    /\ \E sid \in ids, limit \in limits :
          ranking_call("rank_by_dividend_yield", sid,
                       rank_by_dividend_yield(analyses, sid, limit))
    /\ UNCHANGED <<cacheVars, sessionVars, txn, libm>>

RankByPvpRatio(ids, limits) ==
    /\ \E sid \in ids, limit \in limits :
          ranking_call("rank_by_pvp_ratio", sid,
                       rank_by_pvp_ratio(analyses, sid, limit))
    /\ UNCHANGED <<cacheVars, sessionVars, txn, libm>>

RankComprehensive(ids, limits) ==
    /\ \E sid \in ids, limit \in limits :
          \E errors \in libm_after(analyses, sid) :
              /\ ranking_call("rank_comprehensive", sid,
                              rank_comprehensive(analyses, sid, limit, errors))
              /\ libm' = errors
    /\ UNCHANGED <<cacheVars, sessionVars, txn>>

GenerateAllRankings(ids) ==
    /\ \E sid \in ids : generate_all_rankings(sid, {})
    /\ UNCHANGED <<cacheVars, sessionVars>>

GenerateAllRankingsFailing(ids) ==
    /\ \E sid \in ids, failing \in SUBSET RankingTypes : generate_all_rankings(sid, failing)
    /\ UNCHANGED <<cacheVars, sessionVars>>

GenerateRank ==
    /\ \E p \in DOMAIN txn : generate_rank(p)
    /\ UNCHANGED <<cacheVars, sessionVars>>

GenerateSave ==
    /\ \E p \in DOMAIN txn : generate_save(p)
    /\ UNCHANGED <<cacheVars, sessionVars>>

GenerateReturn ==
    /\ \E p \in DOMAIN txn : generate_return(p)
    /\ UNCHANGED <<cacheVars, sessionVars>>

\* save_ranking called by itself, with the ranking of the stored analyses
\* that its caller has computed, or with an empty list
SaveRanking(ids, types) ==
    /\ \E sid \in ids, t \in types :
          \E errors \in libm_of(t, analyses, sid) :
              \E ranking \in {<<>>, rank_of(t, analyses, sid, errors)} :
                  /\ save_ranking_call(sid, t, ranking, {})
                  /\ libm' = errors
    /\ UNCHANGED <<cacheVars, sessionVars, txn>>

ReviseAnalysis(reports) ==
    /\ \E i \in DOMAIN analyses, r \in reports : revise_analysis(analyses[i].id, r)
    /\ UNCHANGED <<cacheVars, sessionVars, txn>>

\* the rankings as functions of the stored analyses
NextRank ==
    \/ AddAnalysis({"s1"}, RankReports)
    \/ AddAnalysis({"s2"}, {ReportA})
    \/ RankByDividendYield({"s1"}, {default_limit})
    \/ RankByPvpRatio({"s1"}, {default_limit})
    \/ RankComprehensive({"s1"}, {default_limit})

SpecRank == Init /\ [][NextRank]_vars

\* rankings computed and saved again while the analyses are rewritten
NextSave ==
    \/ AddAnalysis({"s1"}, {ReportA, ReportCheap})
    \/ ReviseAnalysis({ReportEmpty})
    \/ GenerateAllRankings({"s1"})
    \/ GenerateRank
    \/ GenerateSave
    \/ GenerateReturn
    \/ SaveRanking({"s1"}, {"pvp_ratio"})

SpecSave == Init /\ [][NextSave]_vars

----------------------------------------------------------------------------
(* FIIEmbeddingsManager: embeddings stored with the analyses and the search *)
(* for similar analyses.  A vector is a sequence of integers; the column    *)
(* embedding_vector holds its JSON text.  A manager is known by the         *)
(* model_name it was constructed with.                                      *)

ModelNames == {"all-MiniLM-L6-v2", "all-MiniLM-L12-v2"}

\* two directions, their diagonal, a longer vector along the diagonal, and a
\* vector of another dimension
Vectors == {<<1, 0>>, <<0, 1>>, <<1, 1>>, <<3, 3>>, <<1, 0, 1>>}

\* json.dumps(embedding): the text of a list of numbers
json_dumps(embedding) == [json |-> embedding]

\* json.loads(text)
json_loads(text) == text.json

\* np.array(json.loads(text)) as sklearn reads it, an array of float64: the
\* doubles of a list of whole numbers
whole(k) == round_even(exactly(nat(IF k < 0 THEN -k ELSE k), 0, k < 0))

float_array(v) == [i \in DOMAIN v |-> whole(v[i])]

\* the float literal of k tenths: the double nearest to k / 10
tenths(k) == round_even(exact_div(whole(k), whole(10)))

(* The dot product of two arrays is the work of the BLAS library numpy is   *)
(* built on.  For the few numbers of a vector of the model the library adds *)
(* the products in the order of the index; what depends on the library and  *)
(* on the processor is whether a product is rounded before it is added, or  *)
(* the multiplication and the addition are fused and rounded once.          *)
\* the product as it enters the sum
rounded_unless(fused, product) == IF fused THEN product ELSE round_even(product)

RECURSIVE dot(_, _, _)
dot(x, y, fused) ==
    IF x = <<>> THEN zero
    ELSE round_even(exact_add(dot(SubSeq(x, 1, Len(x) - 1), SubSeq(y, 1, Len(y) - 1), fused),
                              rounded_unless(fused, exact_mul(x[Len(x)], y[Len(y)])),
                              FALSE))

\* the norm normalize divides a row by: the square root of the sum of its
\* squares, and 1 for a row of zeros
row_norm(squares) ==
    round_even(IF squares = zero THEN exactly(<<1>>, 0, FALSE) ELSE exact_sqrt(squares))

\* x / norm, number by number
scaled(x, norm) == [i \in DOMAIN x |-> round_even(exact_div(x[i], norm))]

\* sklearn's normalize(X): the row, scaled to the norm 1.  The sum of the
\* squares of whole numbers is a whole number, the same double in whatever
\* way it is added up
normalize(x) == scaled(x, row_norm(dot(x, x, FALSE)))

\* sklearn's cosine_similarity of two vectors of one dimension: the dot
\* product of the two normalized rows, a double
normalized(rows) == [i \in DOMAIN rows |-> normalize(float_array(rows[i]))]

dot_rows(rows, fused) == dot(rows[1], rows[2], fused)

cosine_similarity(a, b, fused) == dot_rows(normalized(<<a, b>>), fused)

\* the pairs of vectors of one dimension that the managers of the model
\* store, under each way of the dot product
StoredPairs == {q \in Vectors \X Vectors \X BOOLEAN : Len(q[1]) = Len(q[2])}

\* their similarities, each computed once
Similarities == {<<q, cosine_similarity(q[1], q[2], q[3])>> : q \in StoredPairs}

\* similarity = cosine_similarity(target_embedding, other_embedding)[0][0]
similarity_of(a, b, fused) ==
    IF <<a, b, fused>> \in StoredPairs
    THEN (CHOOSE s \in Similarities : s[1] = <<a, b, fused>>)[2]
    ELSE cosine_similarity(a, b, fused)

\* a threshold test that lets every candidate through
at_least_nothing(similarity, min_similarity) == TRUE

\* similarity >= min_similarity, two doubles
at_least(similarity, min_similarity) == ~float_less(similarity, min_similarity)

\* db.query(FIIAnalysis).filter(FIIAnalysis.id == analysis_id).first()
first_analysis(table, analysis_id) ==
    IF \E i \in DOMAIN table : table[i].id = analysis_id
    THEN CHOOSE i \in DOMAIN table :
            /\ table[i].id = analysis_id
            /\ \A j \in DOMAIN table : table[j].id = analysis_id => i <= j
    ELSE 0

\* the candidates of find_similar_fiis: every other analysis with an embedding
\* whose embedding_model is the model_name of the manager
other_analyses(model_name, table, target_analysis_id) ==
    SelectSeq(table, LAMBDA a : /\ a.id # target_analysis_id
                                /\ a.embedding_vector # None
                                /\ a.embedding_model = Some(model_name))

default_similar_limit == 10

\* the default min_similarity
default_min_similarity == tenths(3)

\* the min_similarity rank_by_similarity passes
ranking_min_similarity == tenths(1)

\* the entry of a candidate whose similarity to the target is similarity;
\* the sort key is its similarity_score, float(similarity)
similar_fii(analysis, similarity) ==
    [analysis_id |-> analysis.id,
     similarity_score |-> similarity,
     key |-> similarity,
     embedding_model |-> analysis.embedding_model]

\* fused is the way of the dot product of the build
find_similar_fiis(model_name, table, target_analysis_id, limit, min_similarity, fused) ==
    LET t == first_analysis(table, target_analysis_id)
    IN  IF t = 0 \/ table[t].embedding_vector = None THEN <<>>
        ELSE
        LET target_embedding == json_loads(table[t].embedding_vector[1])
            \* a candidate of another dimension raises in cosine_similarity and
            \* is skipped
            comparable == SelectSeq(other_analyses(model_name, table, target_analysis_id),
                              LAMBDA a : Len(json_loads(a.embedding_vector[1]))
                                            = Len(target_embedding))
            scored == [i \in DOMAIN comparable |->
                          similar_fii(comparable[i],
                              similarity_of(target_embedding,
                                  json_loads(comparable[i].embedding_vector[1]), fused))]
            similarities == sort_reverse(
                SelectSeq(scored, LAMBDA x : at_least(x.similarity_score, min_similarity)))
        IN  take(similarities, limit)

\* the loop of rank_by_similarity: every entry find_similar_fiis returned is
\* looked up again by id and, when found, added with the index of the
\* enumeration
similarity_rankings(table, similar_fiis) ==
    LET found == {i \in DOMAIN similar_fiis :
                     first_analysis(table, similar_fiis[i].analysis_id) # 0}
        kept == SelectSeq([i \in DOMAIN similar_fiis |->
                              [index |-> i - 1, item |-> similar_fiis[i]]],
                          LAMBDA x : x.index + 1 \in found)
    IN  [i \in DOMAIN kept |->
            [rank_position |-> rank_position_of(kept[i].index),
             analysis_id |-> kept[i].item.analysis_id,
             score |-> kept[i].item.similarity_score,
             metric_details |-> [similarity_score |-> kept[i].item.similarity_score]]]

rank_by_similarity(model_name, table, session_id, target_analysis_id, limit, fused) ==
    similarity_rankings(table, find_similar_fiis(model_name, table, target_analysis_id, limit,
                                                 ranking_min_similarity, fused))

\* what update_fii_embedding leaves of the row when generate_embedding has
\* raised: db.rollback(), the row as it was
after_rollback(analysis, model_name) == analysis

\* the outcomes of generate_embedding: a vector, or an exception
Failure == <<>>

EmbeddingOutcomes == {Failure} \cup {Some(v) : v \in Vectors}

\* update_fii_embedding ends by returning True or False: the except clause
\* catches what generate_embedding raises, so raised is FALSE in every branch
update_fii_embedding(model_name, analysis_id, outcome) ==
    LET i == first_analysis(analyses, analysis_id)
        called(branch) == [op |-> "update_fii_embedding", session_id |-> "",
                           branch |-> branch, target |-> analysis_id, raised |-> FALSE]
    IN  /\ IF i = 0
           THEN /\ rcall' = called("absent")
                /\ rret' = FALSE
                /\ UNCHANGED analyses
           ELSE IF outcome = Failure
           THEN /\ rcall' = called("failed")
                /\ analyses' = [analyses EXCEPT ![i] = after_rollback(@, model_name)]
                /\ rret' = FALSE
           ELSE /\ rcall' = called("stored")
                /\ analyses' = [analyses EXCEPT
                                   ![i].embedding_vector = Some(json_dumps(outcome[1])),
                                   ![i].embedding_model = Some(model_name)]
                /\ rret' = TRUE
        /\ UNCHANGED <<now, rankings, libm>>

UpdateFiiEmbedding(models, outcomes) ==
    /\ \E m \in models, id \in 1..MaxRows, o \in outcomes :
          update_fii_embedding(m, id, o)
    /\ UNCHANGED <<cacheVars, sessionVars, txn>>

FindSimilarFiis(models) ==
    /\ \E m \in models, id \in 1..MaxRows, fused \in BOOLEAN :
          /\ rcall' = [op |-> "find_similar_fiis", session_id |-> "", branch |-> m,
                       target |-> id]
          /\ rret' = find_similar_fiis(m, analyses, id, default_similar_limit,
                                       default_min_similarity, fused)
          /\ UNCHANGED <<now, analyses, rankings, libm>>
    /\ UNCHANGED <<cacheVars, sessionVars, txn>>

RankBySimilarity(models, ids, limits) ==
    /\ \E m \in models, sid \in ids, id \in 1..MaxRows, limit \in limits,
          fused \in BOOLEAN :
          ranking_call("rank_by_similarity", sid,
                       rank_by_similarity(m, analyses, sid, id, limit, fused))
    /\ UNCHANGED <<cacheVars, sessionVars, txn, libm>>

\* embeddings written by managers of two models, searched by the manager of
\* the default model
NextEmbed ==
    \/ AddAnalysis({"s1"}, {ReportA})
    \/ UpdateFiiEmbedding(ModelNames, EmbeddingOutcomes)
    \/ FindSimilarFiis({"all-MiniLM-L6-v2"})

SpecEmbed == Init /\ [][NextEmbed]_vars

\* the limits a caller passes: all but the last entry, one entry, the default
RankLimits == {-1, 1, default_limit}

\* the four ranking functions over analyses of two sessions, some of them
\* with an embedding
NextPositions ==
    \/ AddAnalysis({"s1"}, {ReportA, ReportB, ReportNA})
    \/ AddAnalysis({"s2"}, {ReportA})
    \/ UpdateFiiEmbedding({"all-MiniLM-L6-v2"}, {Some(<<1, 0>>), Some(<<1, 1>>)})
    \/ RankByDividendYield({"s1"}, RankLimits)
    \/ RankByPvpRatio({"s1"}, RankLimits)
    \/ RankComprehensive({"s1"}, RankLimits)
    \/ RankBySimilarity({"all-MiniLM-L6-v2"}, {"s1"}, RankLimits)

SpecPositions == Init /\ [][NextPositions]_vars

----------------------------------------------------------------------------
(* CacheManager.set as its two database steps, for callers that run at the  *)
(* same time, each in a database session of its own: the query for the      *)
(* entry (lines 61-69) and the commit of the changed or new entry (lines    *)
(* 71-89).  txn[p] is the call of caller p: its arguments, the entry its    *)
(* query loaded, and how it ended.                                          *)

MaxCallers == 2

(* The UPDATE a commit flushes for a loaded entry sets the columns the call  *)
(* has given a value that differs from the loaded one, in the row that has   *)
(* the id of the loaded entry now.  The clock readings are datetimes with    *)
(* microseconds and the model counts seconds: a reading of another second    *)
(* than the loaded datetime differs from it, a reading of the same second    *)
(* differs from it unless the clock gave the identical datetime.             *)

\* the columns a call has set from a reading of the same second as the
\* loaded datetime
same_second(loaded, new, stamped) == {f \in stamped : new[f] = loaded[f]}

\* the columns of the SET clause: fresh are the columns of same_second whose
\* reading is not the identical datetime
changed(loaded, new, fresh) ==
    {f \in DOMAIN loaded : new[f] # loaded[f] \/ f \in fresh}

\* the row after the UPDATE at time t: last_accessed has
\* onupdate=func.now() (fii_models.py, line 110) and is set to the time of
\* the statement when the SET clause does not name it
flush_update(current, new, columns, t) ==
    [f \in DOMAIN current |->
        IF f \in columns THEN new[f]
        ELSE IF f = "last_accessed" THEN Some(t)
        ELSE current[f]]

set_query(cache_type, data, ttl, kwargs) ==
    LET cache_key == _generate_cache_key(cache_type, kwargs)
        eff == or_default(ttl)
        i == first(cache, cache_key)
    IN  /\ Len(txn) < MaxCallers
        /\ txn' = Append(txn,
                     [cache_key |-> cache_key,
                      cache_type |-> cache_type,
                      data |-> data,
                      ttl |-> eff,
                      expires_at |-> expires_at_of(now, eff),
                      loaded |-> IF i # 0 THEN Some(cache[i]) ELSE None,
                      \* entry.last_accessed = datetime.utcnow(), read before
                      \* the commit
                      at |-> now,
                      pc |-> "queried",
                      error |-> "none",
                      op |-> "set"])
        /\ UNCHANGED <<now, cache, shadow, call, ret>>

\* the commit of an update whose UPDATE sets the columns fresh besides those
\* of another value
set_update(p, fresh) ==
    LET c == txn[p]
        old == c.loaded[1]
        new == update_entry(old, c.data, c.ttl, c.expires_at, c.at)
        columns == changed(old, new, fresh)
        i == by_id(cache, old.id)
    IN  IF columns # {} /\ i = 0
        \* the UPDATE of a row another caller has deleted matches no row:
        \* the commit raises StaleDataError
        THEN /\ call' = [op |-> "set", key |-> c.cache_key, branch |-> "error"]
             /\ txn' = [txn EXCEPT ![p].pc = "raised", ![p].error = "StaleDataError"]
             /\ ret' = None
             /\ UNCHANGED <<cache, shadow>>
        ELSE /\ call' = [op |-> "set", key |-> c.cache_key, branch |-> "update"]
             \* no column has another value: the commit flushes no UPDATE
             /\ cache' = IF columns = {} THEN cache
                         ELSE [cache EXCEPT ![i] = flush_update(@, new, columns, now)]
             /\ shadow' = IF columns = {} THEN shadow
                          ELSE [shadow EXCEPT ![i] =
                                   [data |-> cache'[i].data,
                                    prev_data |-> Some(shadow[i].data),
                                    ttl |-> Some(c.ttl), set_at |-> now,
                                    hits_set |-> 0, hits_new |-> shadow[i].hits_new]]
             /\ txn' = [txn EXCEPT ![p].pc = "returned"]
             /\ ret' = c.cache_key

set_commit(p) ==
    LET c == txn[p]
        k == first(cache, c.cache_key)
    IN  /\ c.pc = "queried"
        /\ c.op = "set"
        /\ IF c.loaded # None
           THEN \E fresh \in SUBSET same_second(c.loaded[1],
                                                update_entry(c.loaded[1], c.data, c.ttl,
                                                             c.expires_at, c.at),
                                                {"expires_at", "last_accessed"}) :
                   set_update(p, fresh)
           ELSE IF k # 0
           \* the INSERT meets the row another caller has committed: cache_key
           \* is unique, the commit raises IntegrityError
           THEN /\ call' = [op |-> "set", key |-> c.cache_key, branch |-> "error"]
                /\ txn' = [txn EXCEPT ![p].pc = "raised", ![p].error = "IntegrityError"]
                /\ ret' = None
                /\ UNCHANGED <<cache, shadow>>
           ELSE /\ call' = [op |-> "set", key |-> c.cache_key, branch |-> "insert"]
                /\ next_id(cache) <= MaxIds
                /\ cache' = inserted(cache, new_entry(c.cache_key, c.cache_type, c.data,
                                                      c.ttl, c.expires_at))
                /\ shadow' = Append(shadow,
                                 [data |-> c.data, prev_data |-> None,
                                  ttl |-> Some(c.ttl), set_at |-> now,
                                  hits_set |-> 0, hits_new |-> 0])
                /\ txn' = [txn EXCEPT ![p].pc = "returned"]
                /\ ret' = c.cache_key
        /\ UNCHANGED now

RaceTtls == {Some(1), Some(2)}

\* an entry written before the callers start
SetBefore ==
    /\ txn = <<>>
    /\ Set({"market_data"}, KwOne, Payloads, RaceTtls)

SetQuery ==
    /\ \E d \in Payloads, ttl \in RaceTtls, kw \in KwOne :
          set_query("market_data", d, ttl, kw)
    /\ UNCHANGED <<scen, sessionVars, dbVars>>

SetCommit ==
    /\ \E p \in DOMAIN txn : set_commit(p)
    /\ UNCHANGED <<scen, sessionVars, dbVars>>

RaceTick ==
    /\ TickCache({1})
    /\ UNCHANGED <<scen, sessionVars, dbVars, txn>>

NextRace == SetBefore \/ SetQuery \/ SetCommit \/ RaceTick

SpecRace == Init /\ [][NextRace]_vars

----------------------------------------------------------------------------
(* find_similar_fiis under the limits and thresholds a caller can pass *)

\* all but the last entry, one entry, two, the default
SimilarLimits == {-1, 1, 2, default_similar_limit}

\* min_similarity 0.1, 0.3, 0.8 and 1.0
MinSimilarities == {tenths(k) : k \in {1, 3, 8, 10}}

FindSimilarFiisWith(models, limits, thresholds) ==
    /\ \E m \in models, id \in 1..MaxRows, limit \in limits, min_similarity \in thresholds,
          fused \in BOOLEAN :
          /\ rcall' = [op |-> "find_similar_fiis", session_id |-> "", branch |-> m,
                       target |-> id, limit |-> limit, min_similarity |-> min_similarity]
          /\ rret' = find_similar_fiis(m, analyses, id, limit, min_similarity, fused)
          /\ UNCHANGED <<now, analyses, rankings, libm>>
    /\ UNCHANGED <<cacheVars, sessionVars, txn>>

NextSimilar ==
    \/ AddAnalysis({"s1"}, {ReportA})
    \/ UpdateFiiEmbedding({"all-MiniLM-L6-v2"},
                         {Some(<<1, 0>>), Some(<<0, 1>>), Some(<<1, 1>>), Some(<<3, 3>>)})
    \/ FindSimilarFiisWith({"all-MiniLM-L6-v2"}, SimilarLimits, MinSimilarities)

SpecSimilar == Init /\ [][NextSimilar]_vars

----------------------------------------------------------------------------
(* A session whose statistics are updated while its analyses are ranked *)

NextCount ==
    \/ CreateSession({"s1"})
    \/ GetSession({"s1"})
    \/ UpdateSessionStats({"s1"})
    \/ CleanupExpiredSessions
    \/ SessionTick
    \/ AddAnalysis({"s1"}, {ReportA})
    \/ RankByDividendYield({"s1"}, {default_limit})

SpecCount == Init /\ [][NextCount]_vars

----------------------------------------------------------------------------
(* CacheManager.get as its database steps, next to the steps of set: the    *)
(* query with the expiry test (lines 35-46), the commit of the delete or of *)
(* the counted access (lines 47-54), and after a counted access the read of *)
(* entry.data (line 56).  The commit expires the loaded entry               *)
(* (sessionmaker, base.py line 33, keeps expire_on_commit), so that line 56 *)
(* selects the row of its id again, in a transaction of its own.            *)

get_query(cache_type, kwargs) ==
    LET cache_key == _generate_cache_key(cache_type, kwargs)
        i == first(cache, cache_key)
        called == [cache_key |-> cache_key,
                   cache_type |-> cache_type,
                   loaded |-> IF i # 0 THEN Some(cache[i]) ELSE None,
                   expired |-> i # 0 /\ is_expired(cache[i], now),
                   \* entry.last_accessed = datetime.utcnow(), read before the
                   \* commit
                   at |-> now,
                   pc |-> IF i # 0 THEN "queried" ELSE "returned",
                   error |-> "none",
                   op |-> "get"]
    IN  /\ Len(txn) < MaxCallers
        /\ txn' = Append(txn, called)
        /\ IF i = 0
           THEN /\ call' = [op |-> "get", key |-> cache_key, branch |-> "absent"]
                /\ ret' = None
           ELSE UNCHANGED <<call, ret>>
        /\ UNCHANGED <<now, cache, shadow>>

\* the commit of a counted access whose UPDATE sets the columns fresh besides
\* those of another value
get_update(p, fresh) ==
    LET c == txn[p]
        old == c.loaded[1]
        new == hit_entry(old, c.at)
        i == by_id(cache, old.id)
    IN  IF i = 0
        \* the UPDATE matches no row: the commit raises StaleDataError
        THEN /\ call' = [op |-> "get", key |-> c.cache_key, branch |-> "error"]
             /\ txn' = [txn EXCEPT ![p].pc = "raised", ![p].error = "StaleDataError"]
             /\ UNCHANGED <<cache, shadow>>
        ELSE /\ call' = [op |-> "get", key |-> c.cache_key, branch |-> "hit"]
             /\ old.access_count < MaxAccess
             /\ cache' = [cache EXCEPT ![i] =
                             flush_update(@, new, changed(old, new, fresh), now)]
             /\ shadow' = [shadow EXCEPT ![i].hits_set = @ + 1,
                                         ![i].hits_new = @ + 1]
             /\ txn' = [txn EXCEPT ![p].pc = "committed"]

get_commit(p) ==
    LET c == txn[p]
        i == by_id(cache, c.loaded[1].id)
    IN  /\ c.pc = "queried"
        /\ c.op = "get"
        /\ ret' = None
        /\ IF c.expired
           \* DELETE of the row that has the id now; when no row has it the
           \* database session warns and the commit goes through
           THEN /\ call' = [op |-> "get", key |-> c.cache_key, branch |-> "expired"]
                /\ cache' = Without(cache, {i})
                /\ shadow' = Without(shadow, {i})
                /\ txn' = [txn EXCEPT ![p].pc = "returned"]
           ELSE \E fresh \in SUBSET same_second(c.loaded[1], hit_entry(c.loaded[1], c.at),
                                                {"last_accessed"}) :
                   get_update(p, fresh)
        /\ UNCHANGED now

\* return entry.data: the row of the id is selected again
get_return(p) ==
    LET c == txn[p]
        i == by_id(cache, c.loaded[1].id)
    IN  /\ c.pc = "committed"
        /\ c.op = "get"
        /\ IF i = 0
           \* another caller has deleted the row since the commit: the read
           \* raises ObjectDeletedError
           THEN /\ call' = [op |-> "get", key |-> c.cache_key, branch |-> "error"]
                /\ txn' = [txn EXCEPT ![p].pc = "raised",
                                      ![p].error = "ObjectDeletedError"]
                /\ ret' = None
           ELSE /\ call' = [op |-> "get", key |-> c.cache_key, branch |-> "read"]
                /\ txn' = [txn EXCEPT ![p].pc = "returned"]
                /\ ret' = Some(cache[i].data)
        /\ UNCHANGED <<now, cache, shadow>>

GetQuery ==
    /\ \E kw \in KwOne : get_query("market_data", kw)
    /\ UNCHANGED <<scen, sessionVars, dbVars>>

GetCommit ==
    /\ \E p \in DOMAIN txn : get_commit(p)
    /\ UNCHANGED <<scen, sessionVars, dbVars>>

GetReturn ==
    /\ \E p \in DOMAIN txn : get_return(p)
    /\ UNCHANGED <<scen, sessionVars, dbVars>>

\* gets and sets on one key that run at the same time
NextContend ==
    SetBefore \/ SetQuery \/ SetCommit \/ GetQuery \/ GetCommit \/ GetReturn \/ RaceTick

SpecContend == Init /\ [][NextContend]_vars

----------------------------------------------------------------------------
(* Stored rankings of a session whose deletion is requested *)

NextKept ==
    \/ AddAnalysis({"s1"}, {ReportA, ReportB})
    \/ AddAnalysis({"s2"}, {ReportA})
    \/ GenerateAllRankings({"s1", "s2"})
    \/ GenerateRank
    \/ GenerateSave
    \/ GenerateReturn
    \/ SaveRanking({"s1"}, {"dividend_yield"})
    \/ DeleteSession({"s1", "s2"})

SpecKept == Init /\ [][NextKept]_vars

----------------------------------------------------------------------------
(* generate_all_rankings over a database whose saves can fail *)

NextFailing ==
    \/ AddAnalysis({"s1"}, {ReportA, ReportB})
    \/ GenerateAllRankingsFailing({"s1"})
    \/ GenerateRank
    \/ GenerateSave
    \/ GenerateReturn

SpecFailing == Init /\ [][NextFailing]_vars

----------------------------------------------------------------------------
(* Properties of the cache store *)

Rows(table, cache_key) == {i \in DOMAIN table : table[i].cache_key = cache_key}

\* the step is a call of the given operation (time stands still during a call)
Called(op) == call'.op = op /\ now' = now

\* C1: a get of an entry whose expiry time has passed returns a miss and
\* removes the entry in the same call, so no get returns the payload of an
\* expired entry.
C1_ExpiredGetMisses ==
    [][Called("get") =>
          LET k == call'.key
              i == first(cache, k)
          IN  (i # 0 /\ cache[i].expires_at # None /\ now > cache[i].expires_at[1])
                 => (ret' = None /\ Rows(cache', k) = {})]_vars

C1_Witness ==
    /\ call.op = "get"
    /\ call.branch = "expired"
    /\ ret = None
    /\ Rows(cache, call.key) = {}

\* C2: an entry written with ttl=0 is expired at the next get of its key, made
\* at a later clock reading: that get misses and removes the entry.
C2_TtlZeroExpiredAtNextGet ==
    [][Called("get") =>
          LET k == call'.key
              i == first(cache, k)
          IN  (i # 0 /\ shadow[i].ttl = Some(0) /\ shadow[i].hits_set = 0
                     /\ now > shadow[i].set_at)
                 => (ret' = None /\ Rows(cache', k) = {})]_vars

\* C3: for an entry written with a ttl t >= 1 at time w, a get at any time
\* >= w + t, the instant w + t included, misses, and the entry is then absent
\* from the store and from the statistics.  (ttl 0 is the case of C2.)
C3_MissFromExpiryInstant ==
    [][Called("get") =>
          LET k == call'.key
              i == first(cache, k)
          IN  (i # 0 /\ shadow[i].ttl # None /\ shadow[i].ttl # Some(0)
                     /\ now >= shadow[i].set_at + shadow[i].ttl[1])
                 => /\ ret' = None
                    /\ Rows(cache', k) = {}
                    /\ cache_stats(cache', now).total_entries = Len(cache) - 1]_vars

\* C5: after set(k, v1) and set(k, v2), a get(k) before the expiry returns v2,
\* and the second set updated the one entry of k in place.
C5_OverwriteThenGet ==
    [][LET k == call'.key
           i == first(cache, k)
       IN  /\ Called("get") =>
                 ((i # 0 /\ shadow[i].prev_data # None /\ ~(now > cache[i].expires_at[1]))
                    => /\ ret' = Some(shadow[i].data)
                       /\ Cardinality(Rows(cache, k)) = 1
                       /\ Cardinality(Rows(cache', k)) = 1)
           /\ (Called("set") /\ i # 0)
                 => /\ Len(cache') = Len(cache)
                    /\ Cardinality(Rows(cache', k)) = 1
                    /\ cache'[i].data = shadow'[i].data]_vars

C5_Witness ==
    /\ call.op = "get"
    /\ call.branch = "hit"
    /\ \E i \in DOMAIN cache :
          /\ cache[i].cache_key = call.key
          /\ shadow[i].prev_data = Some("v1")
          /\ shadow[i].data = "v2"
          /\ shadow[i].hits_set = 1
          /\ ret = Some("v2")
          /\ Cardinality(Rows(cache, call.key)) = 1

\* C6 as stated: across set calls on an existing key, expires_at never
\* decreases, whatever the ttl.
C6_ExpiresAtNeverDecreases ==
    [][LET i == first(cache, call'.key)
       IN  (Called("set") /\ i # 0)
              => cache'[i].expires_at[1] >= cache[i].expires_at[1]]_vars

\* C6 amended: a set on an existing key puts expires_at at the time of the call
\* plus the ttl it stores, so expires_at does not decrease when the stored
\* ttl_seconds does not decrease.
C6_ExpiresAtResetFromNow ==
    [][LET i == first(cache, call'.key)
       IN  (Called("set") /\ i # 0)
              => /\ cache'[i].expires_at = Some(now + cache'[i].ttl_seconds[1])
                 /\ (cache'[i].ttl_seconds[1] >= cache[i].ttl_seconds[1]
                       => cache'[i].expires_at[1] >= cache[i].expires_at[1])]_vars

C6_Witness ==
    /\ call.op = "set"
    /\ call.branch = "update"
    /\ now > 0
    /\ \E i \in DOMAIN cache :
          /\ cache[i].cache_key = call.key
          /\ shadow[i].set_at = now
          /\ cache[i].expires_at = Some(now + cache[i].ttl_seconds[1])

\* C7 as stated: access_count is at most the number of hits since the most
\* recent set of the key.
C7_AccessCountAtMostHitsSinceSet ==
    \A i \in DOMAIN cache : cache[i].access_count <= shadow[i].hits_set

\* C7 amended: access_count is at most the number of hits since the entry was
\* created (the most recent set that found no entry for the key).
C7_AccessCountAtMostHitsSinceCreation ==
    \A i \in DOMAIN cache : cache[i].access_count <= shadow[i].hits_new

C7_Witness ==
    \E i \in DOMAIN cache :
        /\ shadow[i].prev_data # None
        /\ cache[i].access_count = 2
        /\ shadow[i].hits_new = 2
        /\ shadow[i].hits_set = 1

\* entry i of the table before a step and entry j after it are the same entry
SameEntry(i, j) == cache'[j].cache_key = cache[i].cache_key

HitOn(c, cache_key) == c.op = "get" /\ c.branch = "hit" /\ c.key = cache_key

UpdateOn(c, cache_key) == c.op = "set" /\ c.branch = "update" /\ c.key = cache_key

\* C8 as stated: access_count and last_accessed of an entry change only in a
\* get that hits it.
C8_OnlyHitChangesAccessFields ==
    [][\A i \in DOMAIN cache : \A j \in DOMAIN cache' :
          (SameEntry(i, j) /\ ~HitOn(call', cache[i].cache_key))
             => /\ cache'[j].access_count = cache[i].access_count
                /\ cache'[j].last_accessed = cache[i].last_accessed]_vars

\* C8 amended: access_count changes only in a get that hits the entry;
\* last_accessed changes only in such a get or in a set on the entry's key.
C8_AccessFieldsFrame ==
    [][\A i \in DOMAIN cache : \A j \in DOMAIN cache' :
          SameEntry(i, j)
             => /\ ~HitOn(call', cache[i].cache_key)
                     => cache'[j].access_count = cache[i].access_count
                /\ (~HitOn(call', cache[i].cache_key) /\ ~UpdateOn(call', cache[i].cache_key))
                     => cache'[j].last_accessed = cache[i].last_accessed]_vars

C8_Witness ==
    /\ call.op = "set"
    /\ call.branch = "update"
    /\ Len(cache) = 2
    /\ \E i \in DOMAIN cache :
          /\ cache[i].cache_key = call.key
          /\ cache[i].access_count = 1
          /\ shadow[i].hits_set = 0
          /\ cache[i].last_accessed = Some(now)
          /\ now > 0

\* C4: two orderings of the same name/value entries give the same key for
\* every cache type, so an entry stored under one ordering is found by a get
\* and by a delete made with the other.
C4_KeyIgnoresOrder ==
    SameEntries(scen.a, scen.b) =>
       /\ _generate_cache_key(scen.cache_type, scen.a)
             = _generate_cache_key(scen.cache_type, scen.b)
       /\ scen.pc = "read" =>
             /\ call.branch = "hit"
             /\ Len(cache) = 1
             /\ ret = Some(cache[1].data)
       /\ scen.pc = "deleted" =>
             /\ call.branch = "found"
             /\ ret = TRUE
             /\ cache = <<>>

C4_Witness ==
    /\ scen.pc = "read"
    /\ Len(scen.a) = 2
    /\ scen.a # scen.b
    /\ SameEntries(scen.a, scen.b)
    /\ call.branch = "hit"

----------------------------------------------------------------------------
(* Properties of the session registry *)

\* the time of the last activity the row records
LastActivity(s) == IF s.last_activity = None THEN s.created_at ELSE s.last_activity[1]

\* C9: a session accessed by get_session / create_session at least every
\* session_ttl / 2 for 3 * session_ttl after its creation never expires: each
\* such access finds it and resets expires_at to now + session_ttl.
C9_RegularAccessNeverExpires ==
    [][\A sid \in SessionIds, ua \in UserAgents :
          LET i == first_session(sessions, sid)
              j == first_session(sessions', sid)
          IN  (/\ i # 0
               /\ sshadow[i].regular
               /\ now - sshadow[i].touched <= session_ttl \div 2
               /\ now - sessions[i].created_at <= 3 * session_ttl)
                 => /\ get_session(sid) =>
                          /\ sret' # None
                          /\ j # 0
                          /\ sessions'[j].expires_at = Some(now + session_ttl)
                    /\ create_session(sid, ua, None) =>
                          /\ j # 0
                          /\ sessions'[j].created_at = sessions[i].created_at
                          /\ sessions'[j].expires_at = Some(now + session_ttl)]_vars

\* C10: a session idle for longer than session_ttl is like no session at the
\* next access: get_session returns None and removes it, and create_session
\* starts a fresh session (total_analyses 0, no preferences, created now).
C10_IdleSessionIsGone ==
    [][\A sid \in SessionIds, ua \in UserAgents :
          LET i == first_session(sessions, sid)
              j == first_session(sessions', sid)
          IN  (i # 0 /\ now - LastActivity(sessions[i]) > session_ttl)
                 => /\ get_session(sid) => (sret' = None /\ j = 0)
                    /\ create_session(sid, ua, None) =>
                          /\ j # 0
                          /\ sessions'[j].total_analyses = 0
                          /\ sessions'[j].preferences = None
                          /\ sessions'[j].created_at = now]_vars

----------------------------------------------------------------------------
(* Properties of the analysis store, the rankings and the embeddings *)

\* C11: when a step removes a session (explicit deletion, expiry found by
\* get_session, or the sweep cleanup_expired_sessions), no analysis with that
\* session_id is stored after the step.
C11_RemovedSessionLeavesNoAnalyses ==
    [][\A sid \in SessionIds :
          (first_session(sessions, sid) # 0 /\ first_session(sessions', sid) = 0)
             => session_rows(analyses', sid) = {}]_vars

\* C12: when generate_all_rankings, or a call of save_ranking, has dealt with
\* a (session_id, ranking_type) pair, the stored entries of the pair are
\* exactly the newly computed ones: after a ranking has been computed empty,
\* which is not saved, and after a ranking has been saved.
C12_StoredIsNewlyComputed ==
    [][/\ \A t \in RankingTypes :
             (rcall'.op = rank_op(t) /\ rret' = <<>>)
                => stored_ranking(rankings', rcall'.session_id, t) = <<>>
       /\ rcall'.op = "save_ranking"
             => stored_ranking(rankings', rcall'.session_id, rcall'.ranking_type)
                  = ranking_rows(rcall'.session_id, rcall'.ranking_type,
                                 rcall'.ranking)]_vars

\* C13: every entry rank_comprehensive returns has a composite score
\* (metric_details.comprehensive_score, before the scaling to a percentage)
\* between 0 and 1.
C13_CompositeScoreInUnitInterval ==
    rcall.op = "rank_comprehensive" =>
        \A i \in DOMAIN rret :
            LET s == rret[i].metric_details.comprehensive_score
            IN  ~float_less(s, zero) /\ ~float_less(float(1), s)

\* a JSON value that carries a number
Numeric(v) == v.t \in {"num", "str"}

\* the analysis reports a dividend yield: a number under one of the two keys
\* of the metrics, or a market value other than the zero sentinel
ReportsDividendYield(a) ==
    \/ /\ a.financial_metrics # None
       /\ \/ Numeric(a.financial_metrics[1].dividend_yield)
          \/ Numeric(a.financial_metrics[1].dy)
    \/ /\ a.market_data # None
       /\ Numeric(a.market_data[1].dividend_yield)
       /\ a.market_data[1].dividend_yield.n # 0

ReportsPvpRatio(a) ==
    \/ /\ a.financial_metrics # None
       /\ \/ Numeric(a.financial_metrics[1].pvp_ratio)
          \/ Numeric(a.financial_metrics[1].p_vp)
    \/ /\ a.market_data # None
       /\ Numeric(a.market_data[1].pvp_ratio)
       /\ a.market_data[1].pvp_ratio.n # 0

\* the stored analysis with the given id
AnalysisById(id) == analyses[CHOOSE i \in DOMAIN analyses : analyses[i].id = id]

\* C14: a metric reported as null or "N/A" is not ranked as if it were 0:
\* rank_by_dividend_yield and rank_by_pvp_ratio return no entry for an analysis
\* that does not report the metric, whatever zero sentinel its market data
\* carries, and in rank_comprehensive the metric is not among the components
\* of such an analysis.
C14_UnreportedMetricNotRanked ==
    /\ rcall.op = "rank_by_dividend_yield" =>
          \A i \in DOMAIN rret : ReportsDividendYield(AnalysisById(rret[i].analysis_id))
    /\ rcall.op = "rank_by_pvp_ratio" =>
          \A i \in DOMAIN rret : ReportsPvpRatio(AnalysisById(rret[i].analysis_id))
    /\ rcall.op = "rank_comprehensive" =>
          \A i \in DOMAIN rret :
              LET a == AnalysisById(rret[i].analysis_id)
                  d == rret[i].metric_details
              IN  /\ ~ReportsDividendYield(a) => "dividend_yield" \notin d.components
                  /\ ~ReportsPvpRatio(a) => "pvp_ratio" \notin d.components

\* C15: every candidate find_similar_fiis returns has the embedding_model of
\* the target analysis, whatever model produced the target's embedding.
C15_SimilarOnlyOfTargetModel ==
    rcall.op = "find_similar_fiis" =>
        \A i \in DOMAIN rret :
            rret[i].embedding_model
               = analyses[first_analysis(analyses, rcall.target)].embedding_model

\* C16: when two set calls on one key have run at the same time and both are
\* over, neither has raised an error, the key has exactly one entry, and the
\* payload, ttl_seconds and expires_at of that entry are those of one of the
\* two calls.
C16_ConcurrentSetsLeaveOneWritersEntry ==
    (/\ Len(txn) = 2
     /\ txn[1].cache_key = txn[2].cache_key
     /\ \A p \in {1, 2} : txn[p].pc \in {"returned", "raised"})
    => /\ \A p \in {1, 2} : txn[p].error = "none"
       /\ Cardinality(Rows(cache, txn[1].cache_key)) = 1
       /\ \E p \in {1, 2} :
             LET e == cache[first(cache, txn[1].cache_key)]
             IN  /\ e.data = txn[p].data
                 /\ e.ttl_seconds = Some(txn[p].ttl)
                 /\ e.expires_at = Some(txn[p].expires_at)

\* C17: a set whose payload cannot be serialised raises, and every entry of
\* the store, the one of the key included, keeps its payload, ttl_seconds and
\* expires_at (and no entry appears or disappears).
C17_FailedSetRaisesAndKeepsEntries ==
    [][/\ \A t \in CacheTypes, kw \in KwOne :
             set(t, Unserialisable, Some(1), kw) => call'.branch = "raised"
       /\ (Called("set") /\ call'.branch = "raised") =>
             /\ ret' = None
             /\ Len(cache') = Len(cache)
             /\ \A i \in DOMAIN cache :
                   /\ cache'[i].cache_key = cache[i].cache_key
                   /\ cache'[i].data = cache[i].data
                   /\ cache'[i].ttl_seconds = cache[i].ttl_seconds
                   /\ cache'[i].expires_at = cache[i].expires_at]_vars

\* a set on a stored key has raised and the entry of the key is there
C17_Witness ==
    /\ call.op = "set"
    /\ call.branch = "raised"
    /\ Rows(cache, call.key) # {}
    /\ Len(cache) = 2

\* the step is a call of update_fii_embedding in which generate_embedding raised
EmbeddingFailed == rcall'.op = "update_fii_embedding" /\ rcall'.branch = "failed"

\* every stored analysis keeps its embedding_vector and embedding_model
EmbeddingsKept ==
    /\ Len(analyses') = Len(analyses)
    /\ \A i \in DOMAIN analyses :
          /\ analyses'[i].embedding_vector = analyses[i].embedding_vector
          /\ analyses'[i].embedding_model = analyses[i].embedding_model

\* C18: when the generation of the embedding fails inside
\* update_fii_embedding, the error propagates to the caller and the stored
\* embedding_vector and embedding_model keep their values.
C18_FailurePropagatesAndKeepsEmbedding ==
    [][EmbeddingFailed => (rcall'.raised /\ EmbeddingsKept)]_vars

\* the operations that return a ranking
RankOps == {"rank_by_dividend_yield", "rank_by_pvp_ratio", "rank_comprehensive",
            "rank_by_similarity"}

\* C19: every list returned by rank_by_dividend_yield, rank_by_pvp_ratio,
\* rank_comprehensive and rank_by_similarity carries the rank_position values
\* 1..N in list order, N being the number of returned entries.
C19_PositionsAreOneToN ==
    rcall.op \in RankOps => \A i \in DOMAIN rret : rret[i].rank_position = i

\* a similarity ranking of two entries was returned
C19_Witness ==
    /\ rcall.op = "rank_by_similarity"
    /\ Len(rret) >= 2
    /\ rret[2].rank_position = 2

\* the first of the values that carries a number, None when none does
first_reported(values) ==
    LET numeric == SelectSeq(values, LAMBDA v : _extract_numeric_value(v) # None)
    IN  IF numeric = <<>> THEN None ELSE _extract_numeric_value(numeric[1])

\* the source fields of a criterion, metrics first, market data last
source_fields(a, first_key, second_key) ==
    (IF a.financial_metrics # None
     THEN <<a.financial_metrics[1][first_key], a.financial_metrics[1][second_key]>>
     ELSE <<>>)
    \o (IF a.market_data # None THEN <<a.market_data[1][first_key]>> ELSE <<>>)

\* the dividend yield and the P/VP an analysis reports
ReportedDividendYield(a) == first_reported(source_fields(a, "dividend_yield", "dy"))
ReportedPvpRatio(a) == first_reported(source_fields(a, "pvp_ratio", "p_vp"))

\* the ids of the session's analyses that satisfy a condition
QualifyingIds(session_id, Qualifies(_)) ==
    {analyses[i].id : i \in {j \in DOMAIN analyses :
                                /\ analyses[j].session_id = session_id
                                /\ Qualifies(analyses[j])}}

\* C20: rank_by_dividend_yield returns the session's analyses that report a
\* dividend yield, from the highest yield to the lowest, and rank_by_pvp_ratio
\* returns the session's analyses that report a P/VP above 0, from the lowest
\* P/VP to the highest.
C20_RankedInMetricOrder ==
    /\ rcall.op = "rank_by_dividend_yield" =>
          /\ {rret[i].analysis_id : i \in DOMAIN rret}
                = QualifyingIds(rcall.session_id, LAMBDA a : ReportedDividendYield(a) # None)
          /\ \A i, j \in DOMAIN rret :
                i < j => ReportedDividendYield(AnalysisById(rret[i].analysis_id))[1]
                           >= ReportedDividendYield(AnalysisById(rret[j].analysis_id))[1]
    /\ rcall.op = "rank_by_pvp_ratio" =>
          /\ {rret[i].analysis_id : i \in DOMAIN rret}
                = QualifyingIds(rcall.session_id,
                                LAMBDA a : /\ ReportedPvpRatio(a) # None
                                           /\ ReportedPvpRatio(a)[1] > 0)
          /\ \A i, j \in DOMAIN rret :
                i < j => ReportedPvpRatio(AnalysisById(rret[i].analysis_id))[1]
                           <= ReportedPvpRatio(AnalysisById(rret[j].analysis_id))[1]

\* C21: the dividend yield by which a record is ranked is the first reported
\* value of metric dividend_yield, metric dy and market dividend_yield, in that
\* order; a reported 0 in an earlier field is not passed over for a later
\* field, neither in rank_by_dividend_yield nor in the dividend-yield component
\* of rank_comprehensive.
C21_FirstReportedYieldIsUsed ==
    /\ rcall.op = "rank_by_dividend_yield" =>
          \A i \in DOMAIN rret :
              Some(rret[i].metric_details.dividend_yield)
                 = ReportedDividendYield(AnalysisById(rret[i].analysis_id))
    /\ rcall.op = "rank_comprehensive" =>
          \A i \in DOMAIN rret :
              LET reported == ReportedDividendYield(AnalysisById(rret[i].analysis_id))
              IN  "dividend_yield" \in rret[i].metric_details.components
                     => (reported # None /\ reported[1] > 0)

\* the similarity is below the threshold, two doubles
BelowThreshold(similarity, min_similarity) == float_less(similarity, min_similarity)

\* C22: every entry find_similar_fiis returns has a similarity_score of at
\* least min_similarity, for every limit: a candidate below the threshold is
\* not in the result.
C22_SimilarAtLeastThreshold ==
    rcall.op = "find_similar_fiis" =>
        /\ rcall.limit >= 0 => Len(rret) <= rcall.limit
        /\ \A i \in DOMAIN rret :
              ~BelowThreshold(rret[i].similarity_score, rcall.min_similarity)

\* a search that returned an entry and left out a candidate of the target's
\* model and dimension whose similarity is below the threshold
C22_Witness ==
    /\ rcall.op = "find_similar_fiis"
    /\ Len(rret) >= 1
    /\ LET t == analyses[first_analysis(analyses, rcall.target)]
       IN  \E i \in DOMAIN analyses :
              /\ analyses[i].id # rcall.target
              /\ analyses[i].embedding_vector # None
              /\ Len(json_loads(analyses[i].embedding_vector[1]))
                    = Len(json_loads(t.embedding_vector[1]))
              /\ \A fused \in BOOLEAN :
                    BelowThreshold(similarity_of(json_loads(t.embedding_vector[1]),
                                                 json_loads(analyses[i].embedding_vector[1]),
                                                 fused),
                                   rcall.min_similarity)
              /\ \A j \in DOMAIN rret : rret[j].analysis_id # analyses[i].id

\* the sum of the totals the statistics report for the given types
RECURSIVE SumOfTotals(_, _)
SumOfTotals(by_type, types) ==
    IF types = {} THEN 0
    ELSE LET ct == CHOOSE x \in types : TRUE
         IN  by_type[ct].total + SumOfTotals(by_type, types \ {ct})

\* C23: get_cache_stats reports every cache type present, with total = active
\* + expired, expired being the number of stored entries of the type whose
\* expires_at is before now, swept or not, and total_entries the sum of the
\* totals of the types.
C23_StatsAddUp ==
    [][Called("get_cache_stats") =>
        /\ DOMAIN ret'.by_type = {cache[i].cache_type : i \in DOMAIN cache}
        /\ \A ct \in DOMAIN ret'.by_type :
              /\ ret'.by_type[ct].total
                    = ret'.by_type[ct].active + ret'.by_type[ct].expired
              /\ ret'.by_type[ct].expired
                    = Cardinality({i \in DOMAIN cache :
                                      /\ cache[i].cache_type = ct
                                      /\ cache[i].expires_at[1] < now})
              /\ ret'.by_type[ct].active >= 0
        /\ ret'.total_entries = SumOfTotals(ret'.by_type, DOMAIN ret'.by_type)
        /\ cache' = cache]_vars

\* statistics of two types, one of them with an active entry and an expired
\* entry that no sweep has removed
C23_Witness ==
    /\ call.op = "get_cache_stats"
    /\ Cardinality(DOMAIN ret.by_type) = 2
    /\ \E ct \in DOMAIN ret.by_type :
          ret.by_type[ct].expired = 1 /\ ret.by_type[ct].active = 1

\* the step is a call of update_session_stats with the given increment_analyses
StatsCalled(increment_analyses) ==
    /\ scall'.op = "update_session_stats"
    /\ scall'.increment_analyses = increment_analyses
    /\ now' = now
    /\ UNCHANGED dbVars

\* C24: over every step that keeps a session, its total_analyses does not
\* decrease: update_session_stats adds exactly 1 when increment_analyses is
\* true and nothing otherwise, and create_session on the existing session,
\* get_session and the ranking operations leave the counter as it is.
C24_TotalAnalysesOnlyCountsUp ==
    [][\A i \in DOMAIN sessions :
          LET sid == sessions[i].session_id
              j == first_session(sessions', sid)
          IN  j # 0 =>
                 sessions'[j].total_analyses
                    = IF StatsCalled(TRUE) /\ scall'.session_id = sid
                      THEN sessions[i].total_analyses + 1
                      ELSE sessions[i].total_analyses]_vars

\* a session that has counted an analysis and was then ranked
C24_Witness ==
    /\ \E i \in DOMAIN sessions : sessions[i].total_analyses >= 1
    /\ scall.op = "update_session_stats"
    /\ rcall.op = "rank_by_dividend_yield"
    /\ Len(rret) >= 1

\* C25: in rank_comprehensive a risk rating outside LOW, MEDIUM, HIGH and a
\* recommendation outside BUY, HOLD, SELL contribute no component: the
\* components of a returned entry name risk_rating and recommendation only
\* for a record whose value is one of the listed categories.
C25_UnlistedCategoryContributesNothing ==
    rcall.op = "rank_comprehensive" =>
        \A i \in DOMAIN rret :
            LET a == AnalysisById(rret[i].analysis_id)
                components == rret[i].metric_details.components
            IN  /\ "risk_rating" \in components
                      => a.risk_rating \in {Some("LOW"), Some("MEDIUM"), Some("HIGH")}
                /\ "recommendation" \in components
                      => a.investment_recommendation
                            \in {Some("BUY"), Some("HOLD"), Some("SELL")}

\* C26: a get that runs at the same time as a set on its key does not remove
\* the entry the set has written: whenever a get removes an entry, the entry
\* as it is stored at that moment has expired.
C26_GetRemovesOnlyExpired ==
    [][(call'.op = "get" /\ now' = now /\ Len(cache') < Len(cache)) =>
          \A i \in DOMAIN cache :
              (\A j \in DOMAIN cache' : cache'[j].cache_key # cache[i].cache_key)
                 => is_expired(cache[i], now)]_vars

\* C27: every get that hits raises access_count by one, also when gets on
\* the key run at the same time: the access_count of an entry is the number
\* of hitting gets since the entry was created.
C27_EveryHitCounted ==
    \A i \in DOMAIN cache : cache[i].access_count = shadow[i].hits_new

\* C28: every ranking operation called with a session_id returns analyses of
\* that session only.
C28_RankedWithinSession ==
    rcall.op \in RankOps =>
        \A i \in DOMAIN rret :
            AnalysisById(rret[i].analysis_id).session_id = rcall.session_id

\* C29: every stored ranking entry refers to a stored analysis, after any
\* sequence of analysis creations, saved rankings and session deletions.
C29_RankingsReferToStoredAnalyses ==
    \A i \in DOMAIN rankings : first_analysis(analyses, rankings[i].analysis_id) # 0

\* the deletion of a session with stored rankings has been requested
C29_Witness ==
    /\ scall.op = "delete_session"
    /\ stored_ranking(rankings, scall.session_id, "dividend_yield") # <<>>
    /\ stored_ranking(rankings, scall.session_id, "comprehensive") # <<>>

\* C30: generate_all_rankings reports a count for a ranking type only if the
\* entries of that ranking were stored: the result it returns has no count
\* for a type whose save failed.
C30_ReportedOnlyIfSaved ==
    rcall.op = "generate_all_rankings" =>
        \A t \in RankingTypes : rret[t] # None => t \notin rcall.failing

====
